---- MODULE Spec2Model ----
(***************************************************************************)
(* Model of audio-go: the AudioEngine facade (audio.go), the stream and    *)
(* file processors (stream/stream.go, file/file.go), the operation         *)
(* descriptor (formats/formats.go) and the external ffmpeg process seen    *)
(* through the pipes the stream processor wires to it.                     *)
(*                                                                         *)
(* A pipe end is a triple <<g, pipe, end>>: g is the number of the Init    *)
(* that allocated it, pipe is "stdin", "stdout" or "extra", end is "r" or  *)
(* "w".  openFds is the set of ends the parent process holds open,         *)
(* childFds the set of ends the spawned process holds open.  Byte strings  *)
(* (diagnostic output, arguments) are strings.                             *)
(***************************************************************************)
EXTENDS Integers, Sequences, FiniteSets, TLC

\* ---------------------------------------------------------------- bounds
PipeCap == 1
MaxChunks == 2
MaxStarts == 2
MaxIndex == 2
MaxArgs == 2

Indices == (0 - 1)..MaxIndex

\* ------------------------------------------------- formats/formats.go
FORMATCONVERT == "FormatConvert"
CHANNELSPLIT == "ChannelSplit"
AUDIOMERGE == "AudioMerge"

Mix == 0
SideBySide == 1

IsRawPCM(f) == f # "wav" /\ f # "mp3" /\ f # "g722" /\ f # "bit" /\ f # "opus"

ZeroArgs == [AudioFileFormat |-> "", SampleRate |-> 0, Channels |-> 0]

Last(s) == s[Len(s)]

GetInputArg_NoFallback(c, index) ==
  IF Len(c.InputArgs) = 0 THEN ZeroArgs
  ELSE IF index < Len(c.InputArgs) THEN c.InputArgs[index + 1]
  ELSE ZeroArgs

GetInputArg(c, index) ==
  IF Len(c.InputArgs) = 0 THEN ZeroArgs
  ELSE IF Len(c.InputArgs) = 1 THEN c.InputArgs[1]
  ELSE IF index < Len(c.InputArgs) THEN c.InputArgs[index + 1]
  ELSE Last(c.InputArgs)

GetOutputArg(c, index) ==
  IF Len(c.OutputArgs) = 0 THEN ZeroArgs
  ELSE IF Len(c.OutputArgs) = 1 THEN c.OutputArgs[1]
  ELSE IF index < Len(c.OutputArgs) THEN c.OutputArgs[index + 1]
  ELSE Last(c.OutputArgs)

DefaultArg_ResetRate(a) ==
  [a EXCEPT !.SampleRate = 8000,
            !.Channels = IF @ <= 0 THEN 1 ELSE @]

DefaultArg(a) ==
  [a EXCEPT !.SampleRate = IF @ <= 0 THEN 8000 ELSE @,
            !.Channels = IF @ <= 0 THEN 1 ELSE @]

SetDefaults_PadInputs(c) ==
  LET ins == IF Len(c.InputArgs) <= 1 THEN Append(c.InputArgs, ZeroArgs) ELSE c.InputArgs
      outs == IF Len(c.OutputArgs) = 0 THEN <<ZeroArgs>> ELSE c.OutputArgs
  IN [c EXCEPT !.OpType = IF @ = "" THEN FORMATCONVERT ELSE @,
               !.InputArgs = [i \in 1..Len(ins) |-> DefaultArg(ins[i])],
               !.OutputArgs = [i \in 1..Len(outs) |-> DefaultArg(outs[i])]]

SetDefaults(c) ==
  LET ins == IF Len(c.InputArgs) = 0 THEN <<ZeroArgs>> ELSE c.InputArgs
      outs == IF Len(c.OutputArgs) = 0 THEN <<ZeroArgs>> ELSE c.OutputArgs
  IN [c EXCEPT !.OpType = IF @ = "" THEN FORMATCONVERT ELSE @,
               !.InputArgs = [i \in 1..Len(ins) |-> DefaultArg(ins[i])],
               !.OutputArgs = [i \in 1..Len(outs) |-> DefaultArg(outs[i])]]

check(a, required) ==
  IF a.AudioFileFormat = "" THEN "AudioFileFormat is missing"
  ELSE IF required /\ a.SampleRate <= 0 THEN "SampleRate is required"
  ELSE IF required /\ a.Channels <= 0 THEN "Channels is required"
  ELSE "ok"

\* the first index at which a loop over the entries returns its error
Min(S) == CHOOSE i \in S : \A j \in S : i <= j

\* case CHANNELSPLIT of the switch in Validate
ValidateSplit_AnyChannels(c) ==
  IF Len(c.OutputArgs) > 1 /\ Len(c.OutputArgs) < 2
    THEN "CHANNELSPLIT needs at least 2 OutputArgs"
  ELSE "ok"

ValidateSplit(c) ==
  IF GetInputArg(c, 0).Channels # 2
    THEN "CHANNELSPLIT requires input channels to be 2"
  ELSE IF Len(c.OutputArgs) > 1 /\ Len(c.OutputArgs) < 2
    THEN "CHANNELSPLIT needs at least 2 OutputArgs"
  ELSE "ok"

\* case AUDIOMERGE of the switch in Validate
ValidateMerge_InputsOnly(c) ==
  LET badSbs == {i \in 0..1 : GetInputArg(c, i).Channels > 1 /\ c.MergeMode = SideBySide}
  IN IF badSbs # {} THEN "input must be Mono for SideBySide Merge"
     ELSE "ok"

ValidateMerge(c) ==
  LET badSbs == {i \in 0..1 : GetInputArg(c, i).Channels > 1 /\ c.MergeMode = SideBySide}
  IN IF c.MergeMode = SideBySide /\ GetOutputArg(c, 0).Channels # 2
       THEN "SideBySide MergeMode requires OutputArgs.Channels to be 2"
     ELSE IF badSbs # {} THEN "input must be Mono for SideBySide Merge"
     ELSE "ok"

Validate(c) ==
  LET inErr(i) == check(GetInputArg(c, i), IsRawPCM(GetInputArg(c, i).AudioFileFormat))
      outErr(i) == check(GetOutputArg(c, i), TRUE)
      badIn == {i \in 0..(Len(c.InputArgs) - 1) : inErr(i) # "ok"}
      badOut == {i \in 0..(Len(c.OutputArgs) - 1) : outErr(i) # "ok"}
  IN IF c.OpType # FORMATCONVERT /\ c.OpType # CHANNELSPLIT /\ c.OpType # AUDIOMERGE
       THEN "invalid OpType"
     ELSE IF badIn # {} THEN inErr(Min(badIn))
     ELSE IF badOut # {} THEN outErr(Min(badOut))
     ELSE IF c.OpType = CHANNELSPLIT THEN ValidateSplit(c)
     ELSE IF c.OpType = AUDIOMERGE THEN ValidateMerge(c)
     ELSE "ok"

\* ----------------------------------------------------- utils/utils.go
\* strings.HasPrefix and strings.HasSuffix
HasPrefix(s, prefix) == Len(s) >= Len(prefix) /\ SubSeq(s, 1, Len(prefix)) = prefix

HasSuffix(s, suffix) ==
  Len(s) >= Len(suffix) /\ SubSeq(s, Len(s) - Len(suffix) + 1, Len(s)) = suffix

\* the Limit of the buffer that captures the process's diagnostic stream
StderrLimit == 2048

NewTailBuffer == [Limit |-> StderrLimit, data |-> ""]

\* the stderr field of a handle before Init has assigned it
NoTailBuffer == [Limit |-> 0, data |-> ""]

\* (b *TailBuffer) Write(p): the buffer afterwards and the returned (n, err)
TailBuffer_Write_NoTrim(b, p) ==
  [b |-> [b EXCEPT !.data = b.data \o p], n |-> Len(p), err |-> "nil"]

TailBuffer_Write(b, p) ==
  LET data == b.data \o p
  IN [b |-> [b EXCEPT !.data = IF Len(data) > b.Limit
                                THEN SubSeq(data, Len(data) - b.Limit + 1, Len(data))
                                ELSE data],
      n |-> Len(p), err |-> "nil"]

TailBuffer_String(b) == b.data

\* ------------------------------------------------- formats/builder.go
\* an argument vector is a sequence of strings; fmt.Sprintf("%d", n) is
\* ToString(n)
GetFilterString(c) == c.FilterString

BuildInputArgs_AlwaysRate(arg, source) ==
  <<"-ar", ToString(arg.SampleRate), "-ac", ToString(arg.Channels)>>
  \o (IF HasPrefix(source, "pipe:") THEN <<"-thread_queue_size", "1024">> ELSE <<>>)
  \o <<"-f", arg.AudioFileFormat, "-i", source>>

BuildInputArgs(arg, source) ==
  (IF IsRawPCM(arg.AudioFileFormat)
   THEN <<"-ar", ToString(arg.SampleRate), "-ac", ToString(arg.Channels)>>
   ELSE <<>>)
  \o (IF HasPrefix(source, "pipe:") THEN <<"-thread_queue_size", "1024">> ELSE <<>>)
  \o <<"-f", arg.AudioFileFormat, "-i", source>>

BuildOutputArgs(arg, target) ==
  <<"-ar", ToString(arg.SampleRate), "-ac", ToString(arg.Channels),
    "-f", arg.AudioFileFormat, target>>

BuildFilterComplex_OutAfterCustom(cfg) ==
  LET custom == GetFilterString(cfg)
      targetOut == GetOutputArg(cfg, 0)
      leftF == IF custom # "" THEN custom ELSE "anull"
      rightF == IF custom # "" THEN custom ELSE "anull"
      mergePart ==
        IF cfg.MergeMode = SideBySide
        THEN "[0:a][1:a]join=inputs=2:channel_layout=stereo"
        ELSE "[0:a][1:a]amix=inputs=2:duration=longest"
             \o (IF targetOut.Channels = 2 THEN ",pan=stereo|c0=c0|c1=c0" ELSE "")
  IN IF cfg.OpType = CHANNELSPLIT
     THEN [filterStr |-> "[0:a]channelsplit=channel_layout=stereo[l][r]; [l]" \o leftF
                           \o "[left]; [r]" \o rightF \o "[right]",
           mapTags |-> <<"[left]", "[right]">>]
     ELSE IF cfg.OpType = AUDIOMERGE
     THEN IF custom # ""
          THEN [filterStr |-> mergePart \o "[tmp]; [tmp]" \o custom \o "[finalout]",
                mapTags |-> <<"[out]">>]
          ELSE [filterStr |-> mergePart \o "[out]", mapTags |-> <<"[out]">>]
     ELSE [filterStr |-> "", mapTags |-> <<>>]

BuildFilterComplex(cfg) ==
  LET custom == GetFilterString(cfg)
      targetOut == GetOutputArg(cfg, 0)
      leftF == IF custom # "" THEN custom ELSE "anull"
      rightF == IF custom # "" THEN custom ELSE "anull"
      mergePart ==
        IF cfg.MergeMode = SideBySide
        THEN "[0:a][1:a]join=inputs=2:channel_layout=stereo"
        ELSE "[0:a][1:a]amix=inputs=2:duration=longest"
             \o (IF targetOut.Channels = 2 THEN ",pan=stereo|c0=c0|c1=c0" ELSE "")
  IN IF cfg.OpType = CHANNELSPLIT
     THEN [filterStr |-> "[0:a]channelsplit=channel_layout=stereo[l][r]; [l]" \o leftF
                           \o "[left]; [r]" \o rightF \o "[right]",
           mapTags |-> <<"[left]", "[right]">>]
     ELSE IF cfg.OpType = AUDIOMERGE
     THEN IF custom # ""
          THEN [filterStr |-> mergePart \o "[tmp]; [tmp]" \o custom \o "[finalout]",
                mapTags |-> <<"[finalout]">>]
          ELSE [filterStr |-> mergePart \o "[out]", mapTags |-> <<"[out]">>]
     ELSE [filterStr |-> "", mapTags |-> <<>>]

\* ------------------------------------------- descriptors a caller passes
Args(f, r, ch) == [AudioFileFormat |-> f, SampleRate |-> r, Channels |-> ch]

\* FilterString is the custom filter string GetFilterString returns
Cfg(op, mode, ins, outs) ==
  [OpType |-> op, MergeMode |-> mode, InputArgs |-> ins, OutputArgs |-> outs,
   InputFiles |-> <<>>, OutputFiles |-> <<>>, FilterString |-> ""]

WithFiles(c, ins, outs) == [c EXCEPT !.InputFiles = ins, !.OutputFiles = outs]

\* the descriptors of the tests, with the paths (base names) the file tests
\* give them
testConfig ==
  WithFiles(Cfg(FORMATCONVERT, Mix, <<Args("s16le", 8000, 1)>>, <<Args("wav", 8000, 1)>>),
            <<"convert.pcm">>, <<"out-one-8kHz.pcm">>)

splitConfig ==
  WithFiles(Cfg(CHANNELSPLIT, Mix, <<Args("mp3", 44100, 2)>>,
                <<Args("s16le", 8000, 1), Args("wav", 16000, 1)>>),
            <<"audio-stereo.mp3">>, <<"out-left.pcm", "out-right.pcm">>)

mergeConfig ==
  WithFiles(Cfg(AUDIOMERGE, SideBySide, <<Args("wav", 8000, 1), Args("mp3", 24000, 1)>>,
                <<Args("wav", 16000, 2)>>),
            <<"audio-8kHz.wav", "audio-24kHz.mp3">>, <<"out-stereo.wav">>)

monoSplitConfig ==
  Cfg(CHANNELSPLIT, Mix, <<Args("mp3", 44100, 1)>>,
      <<Args("s16le", 8000, 1), Args("wav", 16000, 1)>>)

emptyConfig == Cfg("", Mix, <<>>, <<>>)

unknownOpConfig == Cfg("Reverse", Mix, <<Args("wav", 0, 0)>>, <<Args("wav", 8000, 1)>>)

monoOutMergeConfig ==
  Cfg(AUDIOMERGE, SideBySide, <<Args("wav", 8000, 1)>>, <<Args("wav", 16000, 1)>>)

Descriptors ==
  {testConfig, splitConfig, mergeConfig, monoSplitConfig, emptyConfig,
   unknownOpConfig, monoOutMergeConfig}

EngineTypes == {"Stream", "File"}

\* ------------------------------------------------------------ the state
VARIABLES
  engineType,  \* processor chosen by NewAudioEngine
  config,      \* the handle's copy of the descriptor
  running,     \* AudioEngine.running
  cmd,         \* s.cmd: "nil", "created", "started", "waited"
  gen,         \* number of Inits that created a command
  stdins,      \* s.stdins
  stdouts,     \* s.stdouts
  ExtraFiles,  \* s.cmd.ExtraFiles
  openFds,     \* pipe ends open in the parent
  callerCtx,   \* Err() of the context passed to Start
  ctxErr,      \* s.ctx.Err()
  proc,        \* the process of s.cmd: "none", "running", "exit0", "exitErr", "killed"
  childFds,    \* pipe ends open in the process of s.cmd
  buf,         \* chunks buffered in each pipe of the current command
  blockedW,    \* indices with a WriteTo call blocked in Write
  blockedR,    \* indices with a ReadFrom call blocked in Read
  waiting,     \* a Wait call is blocked in cmd.Wait
  ret,         \* the call that returned last, and its error ("-": none)
  stderr,      \* s.stderr, the buffer the command's Stderr is copied into
  diagnostics, \* every byte the process of s.cmd has written to its stderr
  cmdArgs,     \* s.cmd.Args after the executable's path
  crashed,     \* a runtime panic has terminated the program
  remaining,   \* test writers: chunks each writer has still to write
  gotBytes,    \* test readers: output indices whose readCount is positive
  reader       \* test readers: "reading", or how the read loop ended

vars ==
  <<engineType, config, running, cmd, gen, stdins, stdouts, ExtraFiles, openFds,
    callerCtx, ctxErr, proc, childFds, buf, blockedW, blockedR,
    waiting, ret, stderr, diagnostics, cmdArgs, crashed, remaining, gotBytes, reader>>

testVars == <<remaining, gotBytes, reader>>

Pipes == {"stdin", "stdout", "extra"}

Range(s) == {s[i] : i \in DOMAIN s}

Returned(op, val) == [op |-> op, val |-> val]

Init ==
  /\ engineType \in EngineTypes
  /\ config \in Descriptors
  /\ running = FALSE
  /\ cmd = "nil"
  /\ gen = 0
  /\ stdins = <<>>
  /\ stdouts = <<>>
  /\ ExtraFiles = <<>>
  /\ openFds = {}
  /\ callerCtx = "nil"
  /\ ctxErr = "nil"
  /\ proc = "none"
  /\ childFds = {}
  /\ buf = [p \in Pipes |-> 0]
  /\ blockedW = {}
  /\ blockedR = {}
  /\ waiting = FALSE
  /\ ret = Returned("none", "none")
  /\ stderr = NoTailBuffer
  /\ diagnostics = ""
  /\ cmdArgs = <<>>
  /\ crashed = FALSE
  /\ remaining = [i \in 0..1 |-> MaxChunks]
  /\ gotBytes = {}
  /\ reader = [i \in 0..1 |-> "reading"]

\* the fields a processor's Init and Run read and write
Handle ==
  [config |-> config, cmd |-> cmd, gen |-> gen, stdins |-> stdins,
   stdouts |-> stdouts, ExtraFiles |-> ExtraFiles, openFds |-> openFds,
   ctxErr |-> ctxErr, proc |-> proc, childFds |-> childFds, stderr |-> stderr,
   diagnostics |-> diagnostics, cmdArgs |-> cmdArgs]

Install(s) ==
  /\ config' = s.config
  /\ cmd' = s.cmd
  /\ gen' = s.gen
  /\ stdins' = s.stdins
  /\ stdouts' = s.stdouts
  /\ ExtraFiles' = s.ExtraFiles
  /\ openFds' = s.openFds
  /\ ctxErr' = s.ctxErr
  /\ proc' = s.proc
  /\ childFds' = s.childFds
  /\ stderr' = s.stderr
  /\ diagnostics' = s.diagnostics
  /\ cmdArgs' = s.cmdArgs

\* ------------------------------------------------------ os/exec, os.Pipe
\* exec.CommandContext(s.ctx, path, args...) after context.WithCancel(ctx)
CommandContext(s, ctx, args) ==
  [s EXCEPT !.gen = @ + 1, !.cmd = "created", !.ExtraFiles = <<>>,
            !.ctxErr = ctx, !.proc = "none", !.childFds = {}, !.diagnostics = "",
            !.cmdArgs = args]

ChildIOFiles(s) == {<<s.gen, "stdin", "r">>, <<s.gen, "stdout", "w">>} \cap s.openFds

ParentIOPipes(s) == {<<s.gen, "stdin", "w">>, <<s.gen, "stdout", "r">>} \cap s.openFds

\* cmd.Start(): fails with the context's error when the context is already
\* done, and with a start error when the spawn fails; it closes the child's
\* ends of the standard pipes in the parent, and the parent's ends too when
\* it fails
cmdStart(s, spawnOk) ==
  IF spawnOk /\ s.ctxErr = "nil"
  THEN [st |-> [s EXCEPT !.cmd = "started", !.proc = "running",
                         !.childFds = ChildIOFiles(s) \cup Range(s.ExtraFiles),
                         !.openFds = @ \ ChildIOFiles(s)],
        err |-> "nil"]
  ELSE [st |-> [s EXCEPT !.openFds = @ \ (ChildIOFiles(s) \cup ParentIOPipes(s))],
        err |-> IF s.ctxErr # "nil" THEN s.ctxErr ELSE "start error"]

\* ---------------------------------------------------- stream/stream.go
\* the descriptor numbers a built argument vector names: its "-i pipe:n"
\* inputs and its "pipe:n" output targets, in order
buildConvertArgs == [in |-> <<0>>, out |-> <<1>>]

buildSplitArgs == [in |-> <<0>>, out |-> <<1, 3>>]

buildMergeArgs_NextFd ==
  [in |-> [i \in 1..2 |-> IF i - 1 > 0 THEN (i - 1) + 1 ELSE 0], out |-> <<1>>]

buildMergeArgs ==
  [in |-> [i \in 1..2 |-> IF i - 1 > 0 THEN (i - 1) + 2 ELSE 0], out |-> <<1>>]

\* the argument vectors the three builders append to args
fastArgs ==
  <<"-analyzeduration", "0", "-probesize", "32", "-fflags", "+nobuffer",
    "-flags", "+low_delay">>

StreamHandle_buildConvertArgs(c, args) ==
  LET in == GetInputArg(c, 0)
      out == GetOutputArg(c, 0)
  IN args
     \o (IF IsRawPCM(in.AudioFileFormat)
         THEN <<"-ar", ToString(in.SampleRate), "-ac", ToString(in.Channels)>>
         ELSE <<>>)
     \o <<"-f", in.AudioFileFormat, "-i", "pipe:0">>
     \o <<"-af", "aresample=" \o ToString(out.SampleRate)>>
     \o <<"-ar", ToString(out.SampleRate), "-ac", ToString(out.Channels),
          "-f", out.AudioFileFormat, "pipe:1">>

StreamHandle_buildSplitArgs_LeftRate(c, args) ==
  LET in == GetInputArg(c, 0)
      outL == GetOutputArg(c, 0)
      outR == GetOutputArg(c, 1)
      filterStr == "[0:a]channelsplit=channel_layout=stereo[l][r]; [l]aresample="
                     \o ToString(outL.SampleRate) \o "[left]; [r]aresample="
                     \o ToString(outL.SampleRate) \o "[right]"
  IN args
     \o (IF IsRawPCM(in.AudioFileFormat)
         THEN <<"-ar", ToString(in.SampleRate), "-ac", ToString(in.Channels)>>
         ELSE <<>>)
     \o <<"-f", in.AudioFileFormat, "-i", "pipe:0">>
     \o <<"-filter_complex", filterStr>>
     \o <<"-map", "[left]", "-ar", ToString(outL.SampleRate),
          "-f", outL.AudioFileFormat, "pipe:1">>
     \o <<"-map", "[right]", "-ar", ToString(outR.SampleRate),
          "-f", outR.AudioFileFormat, "pipe:3">>

StreamHandle_buildSplitArgs(c, args) ==
  LET in == GetInputArg(c, 0)
      outL == GetOutputArg(c, 0)
      outR == GetOutputArg(c, 1)
      filterStr == "[0:a]channelsplit=channel_layout=stereo[l][r]; [l]aresample="
                     \o ToString(outL.SampleRate) \o "[left]; [r]aresample="
                     \o ToString(outR.SampleRate) \o "[right]"
  IN args
     \o (IF IsRawPCM(in.AudioFileFormat)
         THEN <<"-ar", ToString(in.SampleRate), "-ac", ToString(in.Channels)>>
         ELSE <<>>)
     \o <<"-f", in.AudioFileFormat, "-i", "pipe:0">>
     \o <<"-filter_complex", filterStr>>
     \o <<"-map", "[left]", "-ar", ToString(outL.SampleRate),
          "-f", outL.AudioFileFormat, "pipe:1">>
     \o <<"-map", "[right]", "-ar", ToString(outR.SampleRate),
          "-f", outR.AudioFileFormat, "pipe:3">>

StreamHandle_buildMergeArgs_AlwaysPan(c, args) ==
  LET targetOut == GetOutputArg(c, 0)
      input(i) ==
        LET in == GetInputArg(c, i)
        IN (IF IsRawPCM(in.AudioFileFormat)
            THEN <<"-ar", ToString(in.SampleRate), "-ac", ToString(in.Channels)>>
            ELSE <<>>)
           \o <<"-thread_queue_size", "1024", "-f", in.AudioFileFormat,
                "-i", "pipe:" \o ToString(buildMergeArgs.in[i + 1])>>
      resample(i) ==
        "[" \o ToString(i) \o ":a]aresample=" \o ToString(targetOut.SampleRate)
          \o "[a" \o ToString(i) \o "]; "
      filterComplex ==
        resample(0) \o resample(1)
          \o (IF c.MergeMode = SideBySide
              THEN "[a0][a1]join=inputs=2:channel_layout=stereo[out]"
              ELSE "[a0][a1]amix=inputs=2:duration=longest[mixed]"
                     \o "; [mixed]pan=stereo|c0=c0|c1=c0[out]")
  IN args \o input(0) \o input(1)
     \o <<"-filter_complex", filterComplex, "-map", "[out]">>
     \o <<"-ar", ToString(targetOut.SampleRate), "-ac", ToString(targetOut.Channels),
          "-f", targetOut.AudioFileFormat, "pipe:1">>

StreamHandle_buildMergeArgs(c, args) ==
  LET targetOut == GetOutputArg(c, 0)
      input(i) ==
        LET in == GetInputArg(c, i)
        IN (IF IsRawPCM(in.AudioFileFormat)
            THEN <<"-ar", ToString(in.SampleRate), "-ac", ToString(in.Channels)>>
            ELSE <<>>)
           \o <<"-thread_queue_size", "1024", "-f", in.AudioFileFormat,
                "-i", "pipe:" \o ToString(buildMergeArgs.in[i + 1])>>
      resample(i) ==
        "[" \o ToString(i) \o ":a]aresample=" \o ToString(targetOut.SampleRate)
          \o "[a" \o ToString(i) \o "]; "
      filterComplex ==
        resample(0) \o resample(1)
          \o (IF c.MergeMode = SideBySide
              THEN "[a0][a1]join=inputs=2:channel_layout=stereo[out]"
              ELSE "[a0][a1]amix=inputs=2:duration=longest[mixed]"
                     \o (IF targetOut.Channels = 2
                         THEN "; [mixed]pan=stereo|c0=c0|c1=c0[out]"
                         ELSE "; [mixed]anull[out]"))
  IN args \o input(0) \o input(1)
     \o <<"-filter_complex", filterComplex, "-map", "[out]">>
     \o <<"-ar", ToString(targetOut.SampleRate), "-ac", ToString(targetOut.Channels),
          "-f", targetOut.AudioFileFormat, "pipe:1">>

\* the argument vector Init hands to exec.CommandContext
StreamHandle_Args(c) ==
  IF c.OpType = FORMATCONVERT THEN StreamHandle_buildConvertArgs(c, fastArgs)
  ELSE IF c.OpType = CHANNELSPLIT THEN StreamHandle_buildSplitArgs(c, fastArgs)
  ELSE StreamHandle_buildMergeArgs(c, fastArgs)

\* the switch on OpType in Init
StreamArgs(c) ==
  IF c.OpType = FORMATCONVERT THEN buildConvertArgs
  ELSE IF c.OpType = CHANNELSPLIT THEN buildSplitArgs
  ELSE buildMergeArgs

\* the pipe end the spawned process finds at descriptor n: 0 and 1 are the
\* standard pipes, entry i of cmd.ExtraFiles becomes descriptor 3 + i
ChildFd(n) ==
  IF n = 0 THEN <<gen, "stdin", "r">>
  ELSE IF n = 1 THEN <<gen, "stdout", "w">>
  ELSE IF n >= 3 /\ n - 3 < Len(ExtraFiles) THEN ExtraFiles[n - 3 + 1]
  ELSE <<gen, "none", "none">>

setupPipes(s) ==
  LET g == s.gen
      s0 == [s EXCEPT !.openFds = @ \cup {<<g, "stdin", "r">>, <<g, "stdin", "w">>,
                                           <<g, "stdout", "r">>, <<g, "stdout", "w">>},
                      !.stdins = Append(@, <<g, "stdin", "w">>),
                      !.stdouts = Append(@, <<g, "stdout", "r">>)]
      s1 == IF s0.config.OpType = CHANNELSPLIT
            THEN [s0 EXCEPT !.openFds = @ \cup {<<g, "extra", "r">>, <<g, "extra", "w">>},
                            !.ExtraFiles = Append(@, <<g, "extra", "w">>),
                            !.stdouts = Append(@, <<g, "extra", "r">>)]
            ELSE s0
  IN IF s1.config.OpType = AUDIOMERGE
     THEN [s1 EXCEPT !.openFds = @ \cup {<<g, "extra", "r">>, <<g, "extra", "w">>},
                     !.ExtraFiles = Append(@, <<g, "extra", "r">>),
                     !.stdins = Append(@, <<g, "extra", "w">>)]
     ELSE s1

closeAllPipes(s) == [s EXCEPT !.openFds = @ \ (Range(s.stdins) \cup Range(s.stdouts))]

StreamHandle_Init_NoValidate(s, ctx, found) ==
  LET s1 == [s EXCEPT !.config = SetDefaults(@)]
  IN IF ~found THEN [st |-> s1, err |-> "ffmpeg not found"]
     ELSE [st |-> setupPipes(CommandContext([s1 EXCEPT !.stderr = NewTailBuffer], ctx,
                                           StreamHandle_Args(s1.config))),
           err |-> "nil"]

StreamHandle_Init(s, ctx, found) ==
  LET s1 == [s EXCEPT !.config = SetDefaults(@)]
  IN IF Validate(s1.config) # "ok" THEN [st |-> s1, err |-> "configuration error"]
     ELSE IF ~found THEN [st |-> s1, err |-> "ffmpeg not found"]
     ELSE [st |-> setupPipes(CommandContext([s1 EXCEPT !.stderr = NewTailBuffer], ctx,
                                           StreamHandle_Args(s1.config))),
           err |-> "nil"]

StreamHandle_Run_KeepExtraFiles(s, spawnOk) ==
  LET r == cmdStart(s, spawnOk)
  IN IF r.err # "nil" THEN [st |-> closeAllPipes(r.st), err |-> r.err]
     ELSE [st |-> r.st, err |-> "nil"]

StreamHandle_Run(s, spawnOk) ==
  LET r == cmdStart(s, spawnOk)
  IN IF r.err # "nil" THEN [st |-> closeAllPipes(r.st), err |-> r.err]
     ELSE [st |-> [r.st EXCEPT !.openFds = @ \ Range(r.st.ExtraFiles)], err |-> "nil"]

\* -------------------------------------------------------- file/file.go
\* validateInputFiles and validateOutputFiles examine the paths present, so
\* they can fail (filesOk false) only when there is a path
\* the builders return the vector and their error; an index expression on
\* InputFiles or OutputFiles beyond its length panics
FileHandle_buildConvertArgs(c) ==
  IF Len(c.InputFiles) < 1 \/ Len(c.OutputFiles) < 1 THEN [args |-> <<>>, err |-> "panic"]
  ELSE [args |-> <<"-y">>
                 \o BuildInputArgs(GetInputArg(c, 0), c.InputFiles[1])
                 \o (IF GetFilterString(c) # "" THEN <<"-af", GetFilterString(c)>> ELSE <<>>)
                 \o BuildOutputArgs(GetOutputArg(c, 0), c.OutputFiles[1]),
        err |-> "nil"]

FileHandle_buildSplitArgs(c) ==
  IF Len(c.InputFiles) < 1 \/ Len(c.OutputFiles) < 2 THEN [args |-> <<>>, err |-> "panic"]
  ELSE LET f == BuildFilterComplex(c)
       IN [args |-> <<"-y">>
                    \o BuildInputArgs(GetInputArg(c, 0), c.InputFiles[1])
                    \o <<"-filter_complex", f.filterStr>>
                    \o <<"-map", f.mapTags[1]>>
                    \o BuildOutputArgs(GetOutputArg(c, 0), c.OutputFiles[1])
                    \o <<"-map", f.mapTags[2]>>
                    \o BuildOutputArgs(GetOutputArg(c, 1), c.OutputFiles[2]),
           err |-> "nil"]

\* the loop over InputFiles of buildMergeArgs, up to its n-th path
RECURSIVE MergeInputs(_, _)
MergeInputs(c, n) ==
  IF n = 0 THEN <<>>
  ELSE MergeInputs(c, n - 1) \o BuildInputArgs(GetInputArg(c, n - 1), c.InputFiles[n])

FileHandle_buildMergeArgs(c) ==
  IF Len(c.OutputFiles) < 1 THEN [args |-> <<>>, err |-> "panic"]
  ELSE LET f == BuildFilterComplex(c)
       IN [args |-> <<"-y">>
                    \o MergeInputs(c, Len(c.InputFiles))
                    \o <<"-filter_complex", f.filterStr, "-map", f.mapTags[1]>>
                    \o BuildOutputArgs(GetOutputArg(c, 0), c.OutputFiles[1]),
           err |-> "nil"]

\* the switch on OpType in Init
FileHandle_Args(c) ==
  IF c.OpType = FORMATCONVERT THEN FileHandle_buildConvertArgs(c)
  ELSE IF c.OpType = CHANNELSPLIT THEN FileHandle_buildSplitArgs(c)
  ELSE FileHandle_buildMergeArgs(c)

FileHandle_Init(s, ctx, found, filesOk) ==
  LET s1 == [s EXCEPT !.config = SetDefaults(@)]
  IN IF Validate(s1.config) # "ok" THEN [st |-> s1, err |-> "configuration error"]
     ELSE IF ~found THEN [st |-> s1, err |-> "ffmpeg not found"]
     ELSE IF ~filesOk /\ (s1.config.InputFiles # <<>> \/ s1.config.OutputFiles # <<>>)
       THEN [st |-> s1, err |-> "file validation failed"]
     ELSE IF FileHandle_Args(s1.config).err # "nil"
       THEN [st |-> s1, err |-> FileHandle_Args(s1.config).err]
     ELSE [st |-> CommandContext([s1 EXCEPT !.stderr = NewTailBuffer], ctx,
                                FileHandle_Args(s1.config).args),
           err |-> "nil"]

FileHandle_Run(s, spawnOk) == cmdStart(s, spawnOk)

\* ------------------------------------------------------------- audio.go
Processor_Init(s, ctx, found, filesOk) ==
  IF engineType = "Stream" THEN StreamHandle_Init(s, ctx, found)
  ELSE FileHandle_Init(s, ctx, found, filesOk)

Processor_Run(s, spawnOk) ==
  IF engineType = "Stream" THEN StreamHandle_Run(s, spawnOk)
  ELSE FileHandle_Run(s, spawnOk)

\* the goroutines of a run (its writers and readers) are started after Start
\* returns, each writer with the chunks of its input to write (MaxChunks,
\* unless the run was given other inputs)
NewRun ==
  /\ buf' = [p \in Pipes |-> 0]
  /\ UNCHANGED remaining
  /\ gotBytes' = {}
  /\ reader' = [i \in 0..1 |-> "reading"]

\* AudioEngine.Start: Init, then Run, then running = true; a panic in Init
\* ends the program before Start returns.  One goroutine
\* issues Start and Wait; Start is issued on an engine that is not running,
\* once the calls of the previous run have returned.
AudioEngine_Start(found, filesOk, spawnOk) ==
  /\ ~crashed /\ ~running /\ ~waiting
  /\ blockedW = {} /\ blockedR = {}
  /\ gen < MaxStarts
  /\ LET i == Processor_Init(Handle, callerCtx, found, filesOk)
         r == Processor_Run(i.st, spawnOk)
     IN IF i.err = "panic"
        THEN /\ Install(i.st)
             /\ crashed' = TRUE
             /\ UNCHANGED <<running, ret, buf, remaining, gotBytes, reader>>
        ELSE IF i.err # "nil"
        THEN /\ Install(i.st)
             /\ running' = FALSE
             /\ ret' = Returned("Start", i.err)
             /\ UNCHANGED <<crashed, buf, remaining, gotBytes, reader>>
        ELSE /\ Install(r.st)
             /\ running' = (r.err = "nil")
             /\ ret' = Returned("Start", r.err)
             /\ UNCHANGED crashed
             /\ NewRun
  /\ UNCHANGED <<engineType, callerCtx, blockedW, blockedR, waiting>>

\* --------------------------------------------------------- pipe behaviour
\* what a Write on the parent's end e does now
WriteOutcome(e) ==
  IF e \notin openFds \/ e[1] # gen THEN "file already closed"
  ELSE IF <<e[1], e[2], "r">> \notin (childFds \cup openFds) THEN "broken pipe"
  ELSE IF buf[e[2]] < PipeCap THEN "nil"
  ELSE "block"

\* what a Read on the parent's end e does now
ReadOutcome(e) ==
  IF e \notin openFds \/ e[1] # gen THEN "file already closed"
  ELSE IF buf[e[2]] > 0 THEN "data"
  ELSE IF <<e[1], e[2], "w">> \notin (childFds \cup openFds) THEN "EOF"
  ELSE "block"

\* a runtime panic ends the program and every goroutine in it
Panic ==
  /\ crashed' = TRUE
  /\ blockedW' = {}
  /\ blockedR' = {}
  /\ waiting' = FALSE
  /\ UNCHANGED buf

\* ---------------------------------------- WriteTo / ReadFrom (both handles)
\* the value of a WriteTo call: "panic" for an index the slice expression
\* rejects, "block" while Write waits on a full pipe, else the error returned
StreamHandle_WriteTo(index) ==
  IF index < Len(stdins)
  THEN IF index < 0 THEN "panic" ELSE WriteOutcome(stdins[index + 1])
  ELSE "out of range"

FileHandle_WriteTo_AsStream(index) == StreamHandle_WriteTo(index)

FileHandle_WriteTo(index) == "not supported in File mode"

\* AudioEngine.WritePrimary / WriteSecondary and Processor.WriteTo
Processor_WriteTo(index) ==
  IF engineType = "Stream" THEN StreamHandle_WriteTo(index) ELSE FileHandle_WriteTo(index)

StreamHandle_ReadFrom(index) ==
  IF index < Len(stdouts)
  THEN IF index < 0 THEN "panic" ELSE ReadOutcome(stdouts[index + 1])
  ELSE "out of range"

FileHandle_ReadFrom(index) == "not supported in File mode"

\* AudioEngine.ReadLeft / ReadRight and Processor.ReadFrom
Processor_ReadFrom(index) ==
  IF engineType = "Stream" THEN StreamHandle_ReadFrom(index) ELSE FileHandle_ReadFrom(index)

ioFrame ==
  <<engineType, stderr, diagnostics, cmdArgs, config, running, cmd, gen, stdins, stdouts, ExtraFiles, openFds,
    callerCtx, ctxErr, proc, childFds, ret>>

\* a goroutine calls WriteTo(index, chunk); a call that returns an error
\* leaves the state as it was
WriteCall(index) ==
  /\ ~crashed
  /\ index \notin blockedW
  /\ LET r == Processor_WriteTo(index)
     IN IF r = "panic" THEN Panic
        ELSE IF r = "block"
        THEN blockedW' = blockedW \cup {index} /\ UNCHANGED <<buf, blockedR, waiting, crashed>>
        ELSE /\ buf' = IF r = "nil" THEN [buf EXCEPT ![stdins[index + 1][2]] = @ + 1] ELSE buf
             /\ UNCHANGED <<blockedW, blockedR, waiting, crashed>>
  /\ UNCHANGED ioFrame

\* a Write blocked on a full pipe returns once the pipe has room, has lost
\* its reader, or has been closed by the parent
WriteWake(index) ==
  /\ ~crashed
  /\ index \in blockedW
  /\ WriteOutcome(stdins[index + 1]) # "block"
  /\ blockedW' = blockedW \ {index}
  /\ buf' = IF WriteOutcome(stdins[index + 1]) = "nil"
            THEN [buf EXCEPT ![stdins[index + 1][2]] = @ + 1] ELSE buf
  /\ UNCHANGED <<blockedR, waiting, crashed>>
  /\ UNCHANGED ioFrame

ReadCall(index) ==
  /\ ~crashed
  /\ index \notin blockedR
  /\ LET r == Processor_ReadFrom(index)
     IN IF r = "panic" THEN Panic
        ELSE IF r = "block"
        THEN blockedR' = blockedR \cup {index} /\ UNCHANGED <<buf, blockedW, waiting, crashed>>
        ELSE /\ buf' = IF r = "data" THEN [buf EXCEPT ![stdouts[index + 1][2]] = @ - 1] ELSE buf
             /\ UNCHANGED <<blockedW, blockedR, waiting, crashed>>
  /\ UNCHANGED ioFrame

\* a Read blocked on an empty pipe returns once the pipe has data, has lost
\* its writers, or has been closed by the parent
ReadWake(index) ==
  /\ ~crashed
  /\ index \in blockedR
  /\ ReadOutcome(stdouts[index + 1]) # "block"
  /\ blockedR' = blockedR \ {index}
  /\ buf' = IF ReadOutcome(stdouts[index + 1]) = "data"
            THEN [buf EXCEPT ![stdouts[index + 1][2]] = @ - 1] ELSE buf
  /\ UNCHANGED <<blockedW, waiting, crashed>>
  /\ UNCHANGED ioFrame

\* any goroutine, any index, any amount of data
WriteTo(index) == WriteCall(index) /\ UNCHANGED testVars

WriteReturn(index) == WriteWake(index) /\ UNCHANGED testVars

ReadFrom(index) == ReadCall(index) /\ UNCHANGED testVars

ReadReturn(index) == ReadWake(index) /\ UNCHANGED testVars

\* ----------------------------------------------- CloseInput, Done, Wait
StreamHandle_CloseInput_StdinOnly(fds) == fds \ {e \in Range(stdins) : e[2] = "stdin"}

StreamHandle_CloseInput(fds) == fds \ Range(stdins)

AudioEngine_CloseInput ==
  /\ ~crashed
  /\ openFds' = IF running /\ engineType = "Stream" THEN StreamHandle_CloseInput(openFds)
                ELSE openFds
  /\ ret' = Returned("CloseInput", "-")
  /\ UNCHANGED <<engineType, stderr, diagnostics, cmdArgs, config, running, cmd, gen, stdins, stdouts, ExtraFiles,
                 callerCtx, ctxErr, proc, childFds, buf, blockedW, blockedR,
                 waiting, crashed, remaining, gotBytes, reader>>

\* s.cancel()
cancel(s) == [s EXCEPT !.ctxErr = IF @ = "nil" THEN "context canceled" ELSE @]

StreamHandle_Done(s) == closeAllPipes(cancel(s))

FileHandle_Done(s) == IF s.gen > 0 THEN cancel(s) ELSE s

AudioEngine_Done_NoRunningCheck ==
  /\ ~crashed
  /\ Install(IF engineType = "Stream" THEN StreamHandle_Done(Handle)
             ELSE FileHandle_Done(Handle))
  /\ running' = FALSE
  /\ ret' = Returned("Done", "-")
  /\ UNCHANGED <<engineType, callerCtx, buf, blockedW, blockedR, waiting,
                 crashed, remaining, gotBytes, reader>>

AudioEngine_Done ==
  /\ ~crashed
  /\ IF running
     THEN /\ Install(IF engineType = "Stream" THEN StreamHandle_Done(Handle)
                     ELSE FileHandle_Done(Handle))
          /\ running' = FALSE
     ELSE UNCHANGED <<config, cmd, gen, stdins, stdouts, ExtraFiles, openFds, ctxErr,
                      proc, childFds, stderr, diagnostics, cmdArgs, running>>
  /\ ret' = Returned("Done", "-")
  /\ UNCHANGED <<engineType, callerCtx, buf, blockedW, blockedR, waiting,
                 crashed, remaining, gotBytes, reader>>

\* the errors cmd.Wait() can return once the process has exited: a clean
\* exit gives nil, or the context's error when the context watcher signalled
\* the process before it was reaped; any other exit gives an ExitError
cmdWait ==
  IF cmd = "waited" THEN {"exec: Wait was already called"}
  ELSE IF proc = "exit0" THEN {"nil"} \cup ({ctxErr} \ {"nil"})
  ELSE {"exit status"}

\* fmt.Errorf("ffmpeg exit error: %w, stderr: %s", err, errMsg), or without
\* the stderr part when errMsg is empty
ExitError_NoStderr(err, errMsg) == "ffmpeg exit error: " \o err

ExitError(err, errMsg) ==
  IF errMsg # "" THEN "ffmpeg exit error: " \o err \o ", stderr: " \o errMsg
  ELSE "ffmpeg exit error: " \o err

StreamHandle_Wait_NoCtxCheck(err, ctx, errMsg) ==
  IF err # "nil" THEN ExitError(err, errMsg) ELSE "nil"

StreamHandle_Wait(err, ctx, errMsg) ==
  IF err # "nil"
  THEN IF ctx # "nil" THEN ctx ELSE ExitError(err, errMsg)
  ELSE "nil"

FileHandle_Wait(err, ctx, errMsg) ==
  IF err # "nil"
  THEN IF ctx # "nil" THEN ctx ELSE ExitError(err, errMsg)
  ELSE "nil"

\* AudioEngine.Wait up to the point where cmd.Wait() blocks
AudioEngine_Wait ==
  /\ ~crashed /\ ~waiting
  /\ IF ~running
     THEN ret' = Returned("Wait", "engine not running") /\ UNCHANGED waiting
     ELSE waiting' = TRUE /\ UNCHANGED ret
  /\ UNCHANGED <<engineType, stderr, diagnostics, cmdArgs, config, running, cmd, gen, stdins, stdouts, ExtraFiles,
                 openFds, callerCtx, ctxErr, proc, childFds, buf, blockedW,
                 blockedR, crashed, remaining, gotBytes, reader>>

\* cmd.Wait() returns: it has seen the exit, closes the parent's ends of the
\* standard pipes, and the handle maps its error
WaitReturn ==
  /\ ~crashed /\ waiting
  /\ cmd = "waited" \/ proc \in {"exit0", "exitErr", "killed"}
  /\ \E err \in cmdWait :
       ret' = Returned("Wait",
                       IF engineType = "Stream"
                       THEN StreamHandle_Wait(err, ctxErr, TailBuffer_String(stderr))
                       ELSE FileHandle_Wait(err, ctxErr, TailBuffer_String(stderr)))
  /\ waiting' = FALSE
  /\ cmd' = "waited"
  /\ openFds' = openFds \ ParentIOPipes(Handle)
  /\ UNCHANGED <<engineType, stderr, diagnostics, cmdArgs, config, running, gen, stdins, stdouts, ExtraFiles,
                 callerCtx, ctxErr, proc, childFds, buf, blockedW, blockedR,
                 crashed, remaining, gotBytes, reader>>

\* the caller's context is cancelled or its deadline passes
ContextDone(kind) ==
  /\ ~crashed
  /\ callerCtx = "nil"
  /\ callerCtx' = kind
  /\ ctxErr' = IF gen > 0 /\ ctxErr = "nil" THEN kind ELSE ctxErr
  /\ UNCHANGED <<engineType, stderr, diagnostics, cmdArgs, config, running, cmd, gen, stdins, stdouts, ExtraFiles,
                 openFds, proc, childFds, buf, blockedW, blockedR, waiting,
                 ret, crashed, remaining, gotBytes, reader>>

\* ------------------------------------------------- the external process
\* the pipes the argument vector names as inputs (pipe:0, pipe:3) and
\* outputs (pipe:1, pipe:3); a file-mode command reads and writes files
ProcInputs ==
  IF engineType = "File" THEN {}
  ELSE IF config.OpType = AUDIOMERGE THEN {"stdin", "extra"}
  ELSE {"stdin"}

ProcOutputs ==
  IF engineType = "File" THEN {}
  ELSE IF config.OpType = CHANNELSPLIT THEN {"stdout", "extra"}
  ELSE {"stdout"}

\* the process reads end-of-stream on p: nothing buffered, no writer left
ProcEOF(p) == buf[p] = 0 /\ <<gen, p, "w">> \notin openFds

procFrame ==
  <<engineType, stderr, diagnostics, cmdArgs, config, running, cmd, gen, stdins, stdouts, ExtraFiles, openFds,
    callerCtx, ctxErr, blockedW, blockedR, waiting, ret, crashed, remaining,
    gotBytes, reader>>

ProcFilter_NoInputWait ==
  /\ proc = "running"
  /\ \E p \in ProcInputs : buf[p] > 0
  /\ \A p \in ProcOutputs : buf[p] < PipeCap /\ <<gen, p, "r">> \in openFds
  /\ buf' = [p \in Pipes |-> IF p \in ProcInputs /\ buf[p] > 0 THEN buf[p] - 1
                             ELSE IF p \in ProcOutputs THEN buf[p] + 1
                             ELSE buf[p]]
  /\ UNCHANGED <<proc, childFds>>
  /\ UNCHANGED procFrame

\* every input holds a chunk or has ended and every output has room: the
\* process reads a chunk from each input that has one, and the filter graph
\* writes a chunk to every output
ProcFilter ==
  /\ proc = "running"
  /\ \E p \in ProcInputs : buf[p] > 0
  /\ \A p \in ProcInputs : buf[p] > 0 \/ ProcEOF(p)
  /\ \A p \in ProcOutputs : buf[p] < PipeCap /\ <<gen, p, "r">> \in openFds
  /\ buf' = [p \in Pipes |-> IF p \in ProcInputs /\ buf[p] > 0 THEN buf[p] - 1
                             ELSE IF p \in ProcOutputs THEN buf[p] + 1
                             ELSE buf[p]]
  /\ UNCHANGED <<proc, childFds>>
  /\ UNCHANGED procFrame

ProcEnd(how) ==
  /\ proc' = how
  /\ childFds' = {}
  /\ UNCHANGED buf
  /\ UNCHANGED procFrame

\* all inputs ended and all output written: exit status 0
ProcExit ==
  /\ proc = "running"
  /\ \A p \in ProcInputs : ProcEOF(p)
  /\ ProcEnd("exit0")

\* the process rejects its input or loses a pipe: nonzero exit status
ProcFail == proc = "running" /\ ProcEnd("exitErr")

ProcKill_NoWatcher == proc = "running" /\ FALSE /\ ProcEnd("killed")

\* exec.CommandContext kills the process once s.ctx is done
ProcKill == proc = "running" /\ ctxErr # "nil" /\ ProcEnd("killed")

\* ---------------------------------------------------------- specification
ContextErrors == {"context canceled", "context deadline exceeded"}

Next ==
  \/ \E found, filesOk, spawnOk \in BOOLEAN : AudioEngine_Start(found, filesOk, spawnOk)
  \/ AudioEngine_Wait
  \/ WaitReturn
  \/ \E index \in Indices : WriteTo(index)
  \/ \E index \in Indices : WriteReturn(index)
  \/ \E index \in Indices : ReadFrom(index)
  \/ \E index \in Indices : ReadReturn(index)
  \/ AudioEngine_CloseInput
  \/ AudioEngine_Done
  \/ \E kind \in ContextErrors : ContextDone(kind)
  \/ ProcFilter
  \/ ProcExit
  \/ ProcFail
  \/ ProcKill

Spec == Init /\ [][Next]_vars

\* a call blocked in a pipe operation that can complete returns
BlockedReturn ==
  \E index \in Indices : WriteReturn(index) \/ ReadReturn(index)

\* the specification under which the context watcher of exec.CommandContext
\* kills a cancelled process and the blocked goroutines are scheduled
FairSpec == Spec /\ WF_vars(ProcKill) /\ WF_vars(BlockedReturn)

\* ------------------------------------------------ the stream test runs
\* TestStreamFormatConvert, TestStreamChannelSplit, TestStreamChannelMerge:
\* one writer goroutine per input, one reader goroutine per output
TestConfigs == {testConfig, splitConfig, mergeConfig}

TestWriters == IF config.OpType = AUDIOMERGE THEN {0, 1} ELSE {0}

TestReaders == IF config.OpType = CHANNELSPLIT THEN {0, 1} ELSE {0}

LiveInit == Init /\ engineType = "Stream" /\ config \in TestConfigs

\* engine.Start(ctx) with the program installed and the deadline far away
TestStart == gen = 0 /\ AudioEngine_Start(TRUE, TRUE, TRUE)

\* a writer's loop: the chunk is written, or an error ends the loop
AfterWrite(i, r) ==
  /\ remaining' = [remaining EXCEPT ![i] = IF r = "nil" THEN @ - 1
                                           ELSE IF r = "block" THEN @ ELSE 0]
  /\ UNCHANGED <<gotBytes, reader>>

TestWrite(i) ==
  /\ running
  /\ i \in TestWriters
  /\ remaining[i] > 0
  /\ WriteCall(i)
  /\ AfterWrite(i, Processor_WriteTo(i))

TestWriteReturn(i) ==
  /\ WriteWake(i)
  /\ AfterWrite(i, WriteOutcome(stdins[i + 1]))

\* CloseInput runs once every writer's loop has ended
TestCloseInput ==
  /\ running
  /\ \A i \in TestWriters : remaining[i] = 0 /\ i \notin blockedW
  /\ Range(stdins) \cap openFds # {}
  /\ AudioEngine_CloseInput

\* a reader's loop: bytes are counted, and any error ends the loop
AfterRead(o, r) ==
  /\ gotBytes' = IF r = "data" THEN gotBytes \cup {o} ELSE gotBytes
  /\ reader' = [reader EXCEPT ![o] = IF r \in {"data", "block"} THEN @
                                     ELSE IF r = "EOF" THEN "EOF" ELSE "error"]
  /\ UNCHANGED remaining

TestRead(o) ==
  /\ running
  /\ o \in TestReaders
  /\ reader[o] = "reading"
  /\ ReadCall(o)
  /\ AfterRead(o, Processor_ReadFrom(o))

TestReadReturn(o) ==
  /\ ReadWake(o)
  /\ AfterRead(o, ReadOutcome(stdouts[o + 1]))

\* engine.Wait() is called once the reader goroutines have ended
TestWait ==
  /\ running
  /\ \A o \in TestReaders : reader[o] # "reading"
  /\ ret.op \notin {"Wait", "Done"}
  /\ AudioEngine_Wait

\* the deferred engine.Done()
TestDone ==
  /\ ret.op = "Wait"
  /\ AudioEngine_Done

LiveNext ==
  \/ TestStart
  \/ \E i \in 0..1 : TestWrite(i)
  \/ \E i \in 0..1 : TestWriteReturn(i)
  \/ TestCloseInput
  \/ \E o \in 0..1 : TestRead(o)
  \/ \E o \in 0..1 : TestReadReturn(o)
  \/ TestWait
  \/ WaitReturn
  \/ TestDone
  \/ ProcFilter
  \/ ProcExit

\* the Go scheduler runs every goroutine of the test and the operating
\* system runs the process
LiveSpec ==
  /\ LiveInit
  /\ [][LiveNext]_vars
  /\ WF_vars(TestStart)
  /\ \A i \in 0..1 : WF_vars(TestWrite(i)) /\ WF_vars(TestWriteReturn(i))
  /\ WF_vars(TestCloseInput)
  /\ \A o \in 0..1 : WF_vars(TestRead(o)) /\ WF_vars(TestReadReturn(o))
  /\ WF_vars(TestWait)
  /\ WF_vars(WaitReturn)
  /\ WF_vars(TestDone)
  /\ WF_vars(ProcFilter)
  /\ WF_vars(ProcExit)

\* ------------------------------------------- a single-threaded caller
\* one goroutine drives the engine: it writes input 0 to its end, then
\* input 1 (Merge), closes the inputs, reads output 0 to its end, then
\* output 1 (Split), and waits.  An input has up to WholeInput chunks, one
\* more than the pipes on the way from an input to an output can hold.
WholeInput == 2 * PipeCap + 1

SerialInit ==
  /\ engineType = "Stream"
  /\ config \in TestConfigs
  /\ running = FALSE
  /\ cmd = "nil"
  /\ gen = 0
  /\ stdins = <<>>
  /\ stdouts = <<>>
  /\ ExtraFiles = <<>>
  /\ openFds = {}
  /\ callerCtx = "nil"
  /\ ctxErr = "nil"
  /\ proc = "none"
  /\ childFds = {}
  /\ buf = [p \in Pipes |-> 0]
  /\ blockedW = {}
  /\ blockedR = {}
  /\ waiting = FALSE
  /\ ret = Returned("none", "none")
  /\ stderr = NoTailBuffer
  /\ diagnostics = ""
  /\ cmdArgs = <<>>
  /\ crashed = FALSE
  /\ remaining \in [0..1 -> 1..WholeInput]
  /\ gotBytes = {}
  /\ reader = [i \in 0..1 |-> "reading"]

\* the caller is inside no call
SerialIdle == blockedW = {} /\ blockedR = {} /\ ~waiting

SerialWrite(i) ==
  /\ SerialIdle
  /\ \A j \in TestWriters : j < i => remaining[j] = 0
  /\ TestWrite(i)

SerialRead(o) ==
  /\ SerialIdle
  /\ \A i \in TestWriters : remaining[i] = 0
  /\ Range(stdins) \cap openFds = {}
  /\ \A j \in TestReaders : j < o => reader[j] # "reading"
  /\ TestRead(o)

\* the steps of the caller and of the process while nothing is cancelled
SerialSteps ==
  \/ TestStart
  \/ \E i \in 0..1 : SerialWrite(i)
  \/ \E i \in 0..1 : TestWriteReturn(i)
  \/ SerialIdle /\ TestCloseInput
  \/ \E o \in 0..1 : SerialRead(o)
  \/ \E o \in 0..1 : TestReadReturn(o)
  \/ SerialIdle /\ TestWait
  \/ WaitReturn
  \/ TestDone
  \/ ProcFilter
  \/ ProcExit

\* the context's deadline passes or another goroutine cancels it, and
\* exec.CommandContext kills the process
SerialNext ==
  \/ SerialSteps
  \/ \E kind \in ContextErrors : ContextDone(kind)
  \/ ProcKill

SerialSpec == SerialInit /\ [][SerialNext]_vars

\* ------------------------------------- the descriptor functions alone
\* the channel specs a caller may write: format missing, raw with and
\* without parameters, container with and without parameters
ArgChoices ==
  {Args("", 0, 0), Args("s16le", 0, 0), Args("s16le", 8000, 2),
   Args("wav", 0, 0), Args("wav", 16000, 2)}

\* an output spec is checked the same way whatever its format
OutChoices == {Args("", 0, 0), Args("wav", 0, 0), Args("wav", 16000, 2)}

ArgSeqs(choices) == UNION {[1..n -> choices] : n \in 0..MaxArgs}

FormatDescriptors ==
  {Cfg(op, mode, ins, outs) :
     op \in {"", FORMATCONVERT, CHANNELSPLIT, AUDIOMERGE, "Reverse"},
     mode \in {Mix, SideBySide}, ins \in ArgSeqs(ArgChoices),
     outs \in ArgSeqs(OutChoices)}

FormatInit ==
  /\ engineType = "Stream"
  /\ config \in FormatDescriptors
  /\ running = FALSE
  /\ cmd = "nil"
  /\ gen = 0
  /\ stdins = <<>>
  /\ stdouts = <<>>
  /\ ExtraFiles = <<>>
  /\ openFds = {}
  /\ callerCtx = "nil"
  /\ ctxErr = "nil"
  /\ proc = "none"
  /\ childFds = {}
  /\ buf = [p \in Pipes |-> 0]
  /\ blockedW = {}
  /\ blockedR = {}
  /\ waiting = FALSE
  /\ ret = Returned("none", "none")
  /\ stderr = NoTailBuffer
  /\ diagnostics = ""
  /\ cmdArgs = <<>>
  /\ crashed = FALSE
  /\ remaining = [i \in 0..1 |-> MaxChunks]
  /\ gotBytes = {}
  /\ reader = [i \in 0..1 |-> "reading"]

formatFrame ==
  <<engineType, stderr, diagnostics, cmdArgs, running, cmd, gen, stdins, stdouts, ExtraFiles, openFds, callerCtx,
    ctxErr, proc, childFds, buf, blockedW, blockedR, waiting, crashed, remaining,
    gotBytes, reader>>

\* c.SetDefaults()
Config_SetDefaults ==
  /\ config' = SetDefaults(config)
  /\ ret' = Returned("SetDefaults", "-")
  /\ UNCHANGED formatFrame

\* c.Validate()
Config_Validate ==
  /\ ret' = Returned("Validate", Validate(config))
  /\ UNCHANGED config
  /\ UNCHANGED formatFrame

FormatNext == Config_SetDefaults \/ Config_Validate

FormatSpec == FormatInit /\ [][FormatNext]_vars

\* ------------------------------------- the process's diagnostic stream
\* a string of n bytes c
RECURSIVE Bytes(_, _)
Bytes(c, n) ==
  IF n = 0 THEN ""
  ELSE IF n % 2 = 0 THEN Bytes(c \o c, n \div 2)
  ELSE c \o Bytes(c, n - 1)

\* the chunks os/exec copies from the process's stderr into cmd.Stderr: none,
\* half the Limit, one byte more than half, one byte more than the Limit
StderrChunks ==
  {"", Bytes("e", StderrLimit \div 2), Bytes("w", StderrLimit \div 2 + 1),
   Bytes("x", StderrLimit + 1)}

\* the process writes at most two buffers and two bytes of diagnostics
MaxDiagnostics == 2 * StderrLimit + 2

\* the copying goroutine of a started command writes a chunk of the
\* process's stderr to s.stderr; cmd.Wait returns after the last of them
StderrWrite(p) ==
  /\ ~crashed
  /\ cmd = "started"
  /\ Len(diagnostics) + Len(p) <= MaxDiagnostics
  /\ diagnostics' = diagnostics \o p
  /\ LET r == TailBuffer_Write(stderr, p)
     IN /\ stderr' = r.b
        /\ ret' = [op |-> "Write", val |-> r.err, n |-> r.n, len |-> Len(p)]
  /\ UNCHANGED <<engineType, cmdArgs, config, running, cmd, gen, stdins, stdouts,
                 ExtraFiles, openFds, callerCtx, ctxErr, proc, childFds, buf, blockedW,
                 blockedR, waiting, crashed, remaining, gotBytes, reader>>

\* a Convert run of either engine whose process writes diagnostics
TailInit == Init /\ config = testConfig

TailNext ==
  \/ \E found, filesOk, spawnOk \in BOOLEAN : AudioEngine_Start(found, filesOk, spawnOk)
  \/ \E p \in StderrChunks : StderrWrite(p)
  \/ AudioEngine_CloseInput
  \/ AudioEngine_Wait
  \/ WaitReturn
  \/ AudioEngine_Done
  \/ \E kind \in ContextErrors : ContextDone(kind)
  \/ ProcExit
  \/ ProcFail
  \/ ProcKill

TailSpec == TailInit /\ [][TailNext]_vars

\* ------------------------------------------------ the argument builders
\* the number of inputs of a Merge
numInputs == 2

\* a raw mono, a raw stereo and a compressed stereo input without a rate
BuildInputs == {Args("s16le", 8000, 1), Args("s16le", 16000, 2), Args("mp3", 0, 2)}

BuildOutputs == {Args("wav", 16000, 2), Args("s16le", 8000, 1)}

BuildSeqs(S) == UNION {[1..n -> S] : n \in 0..numInputs}

Prefixes(paths) == {SubSeq(paths, 1, n) : n \in 0..Len(paths)}

\* descriptors of the three operations with up to two specs and paths a side
BuildDescriptors ==
  {[Cfg(op, mode, ins, outs) EXCEPT !.InputFiles = inFiles, !.OutputFiles = outFiles,
                                     !.FilterString = filter] :
     op \in {FORMATCONVERT, CHANNELSPLIT, AUDIOMERGE}, mode \in {Mix, SideBySide},
     ins \in BuildSeqs(BuildInputs), outs \in BuildSeqs(BuildOutputs),
     inFiles \in Prefixes(<<"in-0.wav", "in-1.mp3">>),
     outFiles \in Prefixes(<<"out-0.pcm", "out-1.pcm">>),
     filter \in {"", "volume=2.0"}}

\* a stream handle reads neither the paths nor the custom filter
BuildInit ==
  /\ engineType \in EngineTypes
  /\ config \in BuildDescriptors
  /\ engineType = "Stream" =>
       config.InputFiles = <<>> /\ config.OutputFiles = <<>> /\ config.FilterString = ""
  /\ running = FALSE
  /\ cmd = "nil"
  /\ gen = 0
  /\ stdins = <<>>
  /\ stdouts = <<>>
  /\ ExtraFiles = <<>>
  /\ openFds = {}
  /\ callerCtx = "nil"
  /\ ctxErr = "nil"
  /\ proc = "none"
  /\ childFds = {}
  /\ buf = [p \in Pipes |-> 0]
  /\ blockedW = {}
  /\ blockedR = {}
  /\ waiting = FALSE
  /\ ret = Returned("none", "none")
  /\ stderr = NoTailBuffer
  /\ diagnostics = ""
  /\ cmdArgs = <<>>
  /\ crashed = FALSE
  /\ remaining = [i \in 0..1 |-> MaxChunks]
  /\ gotBytes = {}
  /\ reader = [i \in 0..1 |-> "reading"]

BuildNext ==
  \E found, filesOk, spawnOk \in BOOLEAN : AudioEngine_Start(found, filesOk, spawnOk)

BuildSpec == BuildInit /\ [][BuildNext]_vars

\* how ffmpeg reads an argument vector: an option that takes a value is
\* followed by it, "-i" is followed by an input, any other argument that is
\* not an option is an output, and the options between two files belong to
\* the later one
ValueOptions ==
  {"-ar", "-ac", "-f", "-i", "-af", "-filter_complex", "-map", "-thread_queue_size",
   "-analyzeduration", "-probesize", "-fflags", "-flags"}

\* positions of the inputs of argument vector a
InputSources(a) == {k \in 2..Len(a) : a[k - 1] = "-i"}

\* positions of the outputs of argument vector a
OutputTargets(a) ==
  {k \in 1..Len(a) : ~HasPrefix(a[k], "-") /\ (k = 1 \/ a[k - 1] \notin ValueOptions)}

\* positions of the options of the file at position k of a
OptionsOf(a, k) ==
  LET before == {j \in InputSources(a) \cup OutputTargets(a) : j < k}
      start == IF before = {} THEN 0 ELSE CHOOSE j \in before : \A i \in before : i <= j
  IN {j \in (start + 1)..(k - 2) : a[j] \in ValueOptions /\ a[j] # "-i"}

\* the file at position k of a has option opt with value val
HasOption(a, k, opt, val) == \E j \in OptionsOf(a, k) : a[j] = opt /\ a[j + 1] = val

\* ------------------------------------------------------------ properties
\* the pipe ends allocated by the Init of the current command
Allocated(g) == {<<g, p, e>> : p \in Pipes, e \in {"r", "w"}}

\* C1: when Run returns success (Start sets running), for Convert, Split and
\* Merge no child-owned pipe end is open in the parent any more -- every
\* entry of cmd.ExtraFiles is closed, and so are the child's ends of the
\* standard pipes -- while every parent-owned end this Init put in stdins
\* and stdouts is still open.
C1_ChildEndsClosedAfterRun ==
  [][(engineType = "Stream" /\ ~running /\ running') =>
       /\ Range(ExtraFiles') \cap openFds' = {}
       /\ childFds' \cap openFds' = {}
       /\ Range(ExtraFiles') \subseteq childFds'
       /\ Len(ExtraFiles') = (IF config'.OpType = FORMATCONVERT THEN 0 ELSE 1)
       /\ openFds' \cap Allocated(gen') =
            {e \in Range(stdins') \cup Range(stdouts') : e[1] = gen'}
       /\ Cardinality(openFds' \cap Allocated(gen')) =
            (IF config'.OpType = FORMATCONVERT THEN 2 ELSE 3)]_vars

C1_Witness ==
  /\ engineType = "Stream" /\ running /\ ret = Returned("Start", "nil")
  /\ config.OpType = CHANNELSPLIT
  /\ ExtraFiles = <<<<gen, "extra", "w">>>>
  /\ <<gen, "extra", "w">> \notin openFds
  /\ <<gen, "extra", "r">> \in openFds

\* C2: when the spawn fails in Run, on return no pipe end allocated by
\* setupPipes is open in the parent -- neither the ends in stdins and
\* stdouts nor the ends held in cmd.ExtraFiles -- and a start error is
\* returned.
C2_NoPipeOpenAfterFailedSpawn ==
  [][(engineType = "Stream" /\ gen' = gen + 1 /\ ~running') =>
       /\ ret'.op = "Start" /\ ret'.val \in {"start error"} \cup ContextErrors
       /\ openFds' \cap Allocated(gen') = {}]_vars

\* C3: for a descriptor that validation rejects, Start returns a
\* configuration error, and no pipe is ever allocated, no command created,
\* no process spawned, and the engine is never running.
C3_RejectedDescriptorAllocatesNothing ==
  Validate(SetDefaults(config)) # "ok" =>
    /\ stdins = <<>> /\ stdouts = <<>> /\ ExtraFiles = <<>> /\ openFds = {}
    /\ cmd = "nil" /\ gen = 0 /\ proc = "none" /\ childFds = {}
    /\ ~running
    /\ ret.op = "Start" => ret.val = "configuration error"

C3_Witness ==
  /\ config.OpType = CHANNELSPLIT
  /\ GetInputArg(config, 0).Channels = 1
  /\ ret = Returned("Start", "configuration error")
  /\ openFds = {} /\ cmd = "nil"

\* C4: when a running stream operation is cancelled (deadline, explicit
\* cancellation, or Done) while calls are blocked inside ReadFrom or
\* WriteTo, every such blocked call eventually returns.
C4_BlockedCallsReturnAfterCancel ==
  (engineType = "Stream" /\ ctxErr # "nil" /\ blockedW \cup blockedR # {})
    ~> (blockedW = {} /\ blockedR = {})

C4_Witness ==
  /\ engineType = "Stream" /\ ctxErr # "nil" /\ ~crashed
  /\ proc = "killed"
  /\ blockedW # {} /\ blockedR # {}

\* C5 as stated: if the context has been cancelled by the time Wait observes
\* the exit, Wait returns the context's error.
C5_WaitReturnsContextError ==
  [][(waiting /\ ~waiting' /\ ~crashed' /\ ctxErr # "nil") =>
       ret' = Returned("Wait", ctxErr)]_vars

\* C5 amended: if the context has been cancelled by the time Wait observes
\* the exit, Wait never returns the "ffmpeg exit error" wrapping: it returns
\* the context's error whenever cmd.Wait reports an error, and nil only
\* when the process exited with status 0 and cmd.Wait reported none.
C5_WaitPrefersContextError ==
  [][(waiting /\ ~waiting' /\ ~crashed' /\ ctxErr # "nil") =>
       /\ ret'.op = "Wait"
       /\ ret'.val \in {ctxErr, "nil"}
       /\ ret'.val = "nil" => (proc = "exit0" /\ cmd # "waited")]_vars

C5_Witness ==
  /\ ret.op = "Wait" /\ ret.val \in ContextErrors /\ ret.val = ctxErr
  /\ proc \in {"killed", "exitErr"}
  /\ cmd = "waited"

\* C6: after a running engine is terminated with Done, a following Wait
\* reports a cancellation error.
C6_WaitAfterDoneReportsCancellation ==
  [][(~running /\ cmd \in {"started", "waited"} /\ ret.op = "Done" /\ ~crashed'
        /\ ret'.op = "Wait") =>
       ret'.val \in ContextErrors]_vars

\* C7: in every state in which Done is called it returns, and after it has
\* returned the process is cancelled and no pipe end allocated for the
\* operation is open in the parent.
C7_DoneClosesEverything ==
  (ret.op = "Done" /\ ~crashed) =>
    /\ openFds = {}
    /\ proc = "running" => ctxErr # "nil"

\* the logical channels setupPipes creates for the operation's topology
LogicalInputs == IF config.OpType = AUDIOMERGE THEN {0, 1} ELSE {0}

LogicalOutputs == IF config.OpType = CHANNELSPLIT THEN {0, 1} ELSE {0}

\* C10: on an initialized stream handle, WriteTo(index) and ReadFrom(index)
\* return the out-of-range error, without a crash, exactly when index is
\* not a logical channel of the operation's topology.
C10_OutOfRangeExactlyOffTopology ==
  (engineType = "Stream" /\ gen > 0) =>
    \A index \in Indices :
      /\ StreamHandle_WriteTo(index) # "panic"
      /\ StreamHandle_ReadFrom(index) # "panic"
      /\ StreamHandle_WriteTo(index) = "out of range" <=> index \notin LogicalInputs
      /\ StreamHandle_ReadFrom(index) = "out of range" <=> index \notin LogicalOutputs

C9_SplitReadersReachEOF ==
  (config.OpType = CHANNELSPLIT) =>
    <>(/\ proc = "exit0"
       /\ reader[0] = "EOF" /\ reader[1] = "EOF"
       /\ gotBytes = {0, 1})

C9_Witness ==
  /\ config.OpType = CHANNELSPLIT
  /\ proc = "exit0"
  /\ reader = [o \in 0..1 |-> "EOF"]
  /\ gotBytes = {0, 1}
  /\ <<gen, "extra", "w">> \notin openFds

\* C11: in file mode WriteTo and ReadFrom return the "not supported in File
\* mode" error for every index in every lifecycle state, no call ever
\* blocks or touches a pipe, and CloseInput changes nothing.
C11_FileModeChannelsUnsupported ==
  /\ [](engineType = "File" =>
          /\ \A index \in Indices :
               /\ Processor_WriteTo(index) = "not supported in File mode"
               /\ Processor_ReadFrom(index) = "not supported in File mode"
          /\ blockedW = {} /\ blockedR = {}
          /\ buf = [p \in Pipes |-> 0]
          /\ stdins = <<>> /\ stdouts = <<>> /\ openFds = {}
          /\ ~crashed)
  /\ [][(engineType = "File" /\ ret.op # "CloseInput" /\ ret'.op = "CloseInput") =>
          UNCHANGED <<engineType, stderr, diagnostics, cmdArgs, config, running, cmd, gen, stdins, stdouts,
                      ExtraFiles, openFds, callerCtx, ctxErr, proc, childFds, buf,
                      blockedW, blockedR, waiting, crashed>>]_vars

C11_Witness ==
  /\ engineType = "File"
  /\ running /\ proc = "running"
  /\ ret = Returned("CloseInput", "-")
  /\ Processor_WriteTo(1) = "not supported in File mode"

\* C12: CloseInput on a running stream engine closes every parent-owned
\* input end (stdin, and the extra pipe's write end for Merge), closes no
\* output end and does not cancel the process; after it no input of the
\* process has a writer left, so the process reads end-of-stream on each.
C12_CloseInputClosesInputsOnly ==
  [][(engineType = "Stream" /\ running /\ ret'.op = "CloseInput"
        /\ (ret.op # "CloseInput" \/ openFds' # openFds)) =>
       /\ Range(stdins') \cap openFds' = {}
       /\ openFds' = openFds \ Range(stdins)
       /\ openFds' \cap Range(stdouts') = openFds \cap Range(stdouts)
       /\ ctxErr' = ctxErr /\ proc' = proc /\ childFds' = childFds /\ running'
       /\ \A p \in ProcInputs' : <<gen', p, "w">> \notin openFds' \cup childFds'
       /\ \A p \in ProcInputs' : buf'[p] = 0 => ProcEOF(p)']_vars

C12_Witness ==
  /\ engineType = "Stream" /\ running
  /\ config.OpType = AUDIOMERGE
  /\ ret = Returned("CloseInput", "-")
  /\ proc = "running" /\ ctxErr = "nil"
  /\ <<gen, "stdin", "w">> \notin openFds
  /\ <<gen, "extra", "w">> \notin openFds
  /\ <<gen, "stdout", "r">> \in openFds

\* C13: after a successful Init of a stream handle, index 0 of the inputs
\* and outputs is the default stdin and stdout; Convert has no extra pipe;
\* Split hands the extra pipe's write end to the child as ExtraFiles[0] and
\* keeps its read end as output index 1; Merge hands the read end to the
\* child as ExtraFiles[0] and keeps the write end as input index 1.
C13_WiringAfterInit ==
  (engineType = "Stream" /\ gen > 0) =>
    /\ stdins[1] = <<gen, "stdin", "w">>
    /\ stdouts[1] = <<gen, "stdout", "r">>
    /\ config.OpType = FORMATCONVERT =>
         ExtraFiles = <<>> /\ Len(stdins) = 1 /\ Len(stdouts) = 1
    /\ config.OpType = CHANNELSPLIT =>
         /\ ExtraFiles = << <<gen, "extra", "w">> >>
         /\ Len(stdins) = 1
         /\ stdouts = << <<gen, "stdout", "r">>, <<gen, "extra", "r">> >>
    /\ config.OpType = AUDIOMERGE =>
         /\ ExtraFiles = << <<gen, "extra", "r">> >>
         /\ stdins = << <<gen, "stdin", "w">>, <<gen, "extra", "w">> >>
         /\ Len(stdouts) = 1

\* C14: the descriptor numbers of the built argument vector agree with the
\* attachment order of the pipes: input 0 is pipe:0, output 0 is pipe:1,
\* the k-th entry of ExtraFiles is referenced as pipe:(2+k), Split's second
\* output and Merge's second input are pipe:3 and backed by the extra pipe,
\* and every referenced descriptor has a pipe end of the right direction.
C14_ArgsAgreeWithAttachment ==
  (engineType = "Stream" /\ gen > 0) =>
    LET a == StreamArgs(config)
    IN /\ a.in[1] = 0 /\ a.out[1] = 1
       /\ \A n \in Range(a.in) : ChildFd(n)[3] = "r"
       /\ \A n \in Range(a.out) : ChildFd(n)[3] = "w"
       /\ \A k \in 1..Len(ExtraFiles) :
            /\ 2 + k \in Range(a.in) \cup Range(a.out)
            /\ ChildFd(2 + k) = ExtraFiles[k]
       /\ config.OpType = CHANNELSPLIT =>
            a.out[2] = 3 /\ ChildFd(3) = <<gen, "extra", "w">>
       /\ config.OpType = AUDIOMERGE =>
            a.in[2] = 3 /\ ChildFd(3) = <<gen, "extra", "r">>
       /\ ProcInputs = {ChildFd(n)[2] : n \in Range(a.in)}
       /\ ProcOutputs = {ChildFd(n)[2] : n \in Range(a.out)}

C14_Witness ==
  /\ engineType = "Stream" /\ gen > 0
  /\ config.OpType = AUDIOMERGE
  /\ proc = "running"
  /\ StreamArgs(config).in = <<0, 3>>
  /\ ChildFd(3) \in childFds

\* defaults have been applied to the descriptor
Defaulted == config = SetDefaults(config)

\* C15: for every Split descriptor, after defaults are applied, validation
\* returns an error whenever the effective input channel count is not 2,
\* and does not return the input-channel error when it is 2.
C15_SplitRequiresStereoInput ==
  LET d == SetDefaults(config)
  IN d.OpType = CHANNELSPLIT =>
       /\ GetInputArg(d, 0).Channels # 2 => Validate(d) # "ok"
       /\ GetInputArg(d, 0).Channels = 2 =>
            Validate(d) # "CHANNELSPLIT requires input channels to be 2"
       /\ (Defaulted /\ ret.op = "Validate") => ret.val = Validate(d)

C15_Witness ==
  /\ config.OpType = CHANNELSPLIT /\ Defaulted
  /\ GetInputArg(config, 0).Channels = 1
  /\ ret = Returned("Validate", "CHANNELSPLIT requires input channels to be 2")

\* C16: for every Merge descriptor with SideBySide policy, after defaults
\* are applied, validation returns an error whenever one of the effective
\* inputs 0 and 1 is not mono or the effective output 0 is not stereo;
\* under Mix policy neither check applies.
C16_SideBySideRequiresMonoInStereoOut ==
  LET d == SetDefaults(config)
      SbsErrors == {"SideBySide MergeMode requires OutputArgs.Channels to be 2",
                    "input must be Mono for SideBySide Merge"}
  IN d.OpType = AUDIOMERGE =>
       /\ (d.MergeMode = SideBySide
             /\ (\/ GetInputArg(d, 0).Channels # 1
                 \/ GetInputArg(d, 1).Channels # 1
                 \/ GetOutputArg(d, 0).Channels # 2)) => Validate(d) # "ok"
       /\ d.MergeMode = Mix => Validate(d) \notin SbsErrors
       /\ d.MergeMode = Mix =>
            Validate(d) = Validate([d EXCEPT !.OpType = FORMATCONVERT])

C16_Witness ==
  /\ config.OpType = AUDIOMERGE /\ config.MergeMode = SideBySide /\ Defaulted
  /\ GetOutputArg(config, 0).Channels = 2
  /\ GetInputArg(config, 1).Channels = 2
  /\ ret = Returned("Validate", "input must be Mono for SideBySide Merge")

\* a raw input spec of the descriptor lacks an explicit positive sample
\* rate or channel count
RawInputIncomplete(c) ==
  \E i \in 1..Len(c.InputArgs) :
    /\ c.InputArgs[i].AudioFileFormat # ""
    /\ IsRawPCM(c.InputArgs[i].AudioFileFormat)
    /\ (c.InputArgs[i].SampleRate <= 0 \/ c.InputArgs[i].Channels <= 0)

\* C17: a descriptor with a raw input spec whose sample rate or channel
\* count is not an explicit positive value is rejected once defaults are
\* applied and the descriptor is validated.
C17_RawInputNeedsExplicitParameters ==
  [][(RawInputIncomplete(config) /\ ret'.op = "SetDefaults") =>
       Validate(config') # "ok"]_vars

\* C18: a Split descriptor is accepted only with exactly one input spec and
\* one or two output specs, a Merge descriptor only with one or two input
\* specs and a single output spec.
C18_EntryCountsMatchTopology ==
  (Defaulted /\ ret = Returned("Validate", "ok")) =>
    /\ config.OpType = CHANNELSPLIT =>
         Len(config.InputArgs) = 1 /\ Len(config.OutputArgs) \in {1, 2}
    /\ config.OpType = AUDIOMERGE =>
         Len(config.InputArgs) \in {1, 2} /\ Len(config.OutputArgs) = 1

\* the entry e repeated at n indices
Repeat(e, n) == [i \in 1..n |-> e]

\* C19: for a descriptor whose InputArgs (OutputArgs) has exactly one
\* entry, after SetDefaults GetInputArg(i) (GetOutputArg(i)) at every
\* index i >= 0 equals the value from the descriptor with the entry
\* repeated explicitly, and Validate gives both the same verdict.
C19_BroadcastEquivalence ==
  LET d == SetDefaults(config)
  IN \A n \in 1..(MaxIndex + 1) :
       /\ Len(config.InputArgs) = 1 =>
            LET x == SetDefaults([config EXCEPT !.InputArgs = Repeat(config.InputArgs[1], n)])
            IN /\ \A i \in 0..MaxIndex : GetInputArg(d, i) = GetInputArg(x, i)
               /\ Validate(d) = Validate(x)
       /\ Len(config.OutputArgs) = 1 =>
            LET y == SetDefaults([config EXCEPT !.OutputArgs = Repeat(config.OutputArgs[1], n)])
            IN /\ \A i \in 0..MaxIndex : GetOutputArg(d, i) = GetOutputArg(y, i)
               /\ Validate(d) = Validate(y)

C19_Witness ==
  /\ config.OpType = AUDIOMERGE /\ config.MergeMode = SideBySide /\ Defaulted
  /\ Len(config.InputArgs) = 1 /\ Len(config.OutputArgs) = 1
  /\ GetInputArg(config, 1) = Args("wav", 8000, 1)
  /\ ret = Returned("Validate", "ok")

\* C20: SetDefaults is idempotent: applying it twice yields the same
\* descriptor as applying it once.
C20_SetDefaultsIdempotent ==
  /\ SetDefaults(SetDefaults(config)) = SetDefaults(config)
  /\ ret.op = "SetDefaults" => Defaulted

C20_Witness ==
  /\ ret = Returned("SetDefaults", "-")
  /\ config = Cfg(FORMATCONVERT, Mix, <<Args("", 8000, 1)>>, <<Args("wav", 8000, 1)>>)

\* C21 (as stated): SetDefaults does not alter a descriptor that Validate
\* accepts: every field of it is the same after the call.
C21_SetDefaultsKeepsValidDescriptor ==
  [][(Validate(config) = "ok" /\ ret'.op = "SetDefaults") => config' = config]_vars

\* what SetDefaults may do to one channel spec of an accepted descriptor:
\* nothing to its format, nothing to a positive rate or channel count, and
\* nothing at all to a raw-format spec
FilledOnly(before, after) ==
  /\ after.AudioFileFormat = before.AudioFileFormat
  /\ before.SampleRate > 0 => after.SampleRate = before.SampleRate
  /\ before.Channels > 0 => after.Channels = before.Channels
  /\ IsRawPCM(before.AudioFileFormat) => after = before

\* C21 (amended): on a descriptor that Validate accepts, SetDefaults leaves
\* the operation type, the merge policy, every format, every output spec and
\* every positive input rate and channel count unchanged; it changes only an
\* empty spec sequence (one placeholder entry is added) and the missing rate
\* or channel count of a container-format input (set to 8000 and 1).
C21_SetDefaultsFillsOnlyMissingValues ==
  [][(Validate(config) = "ok" /\ ret'.op = "SetDefaults") =>
       /\ config'.OpType = config.OpType
       /\ config'.MergeMode = config.MergeMode
       /\ IF Len(config.OutputArgs) = 0
          THEN config'.OutputArgs = <<[ZeroArgs EXCEPT !.SampleRate = 8000, !.Channels = 1]>>
          ELSE config'.OutputArgs = config.OutputArgs
       /\ IF Len(config.InputArgs) = 0
          THEN config'.InputArgs = <<[ZeroArgs EXCEPT !.SampleRate = 8000, !.Channels = 1]>>
          ELSE /\ Len(config'.InputArgs) = Len(config.InputArgs)
               /\ \A i \in 1..Len(config.InputArgs) :
                    FilledOnly(config.InputArgs[i], config'.InputArgs[i])]_vars

\* SetDefaults has run on an accepted Convert descriptor whose container
\* input named no rate and no channel count
C21_Witness ==
  /\ ret = Returned("SetDefaults", "-")
  /\ Validate(config) = "ok"
  /\ config.OpType = FORMATCONVERT
  /\ config.InputArgs = <<Args("wav", 8000, 1)>>
  /\ config.OutputArgs = <<Args("wav", 16000, 2)>>

\* C22: whatever has been written to the TailBuffer, its stored data is never
\* longer than its Limit (2048 for the buffer that captures the engine's
\* stderr), every Write reports all of its bytes as written and no error, and
\* the Wait that returns after a nonzero exit without cancellation returns
\* an "ffmpeg exit error" that embeds the stored tail.
C22_TailIsBoundedAndReported ==
  /\ Len(stderr.data) <= stderr.Limit
  /\ cmd # "nil" => stderr.Limit = 2048
  /\ ret.op = "Write" => ret.n = ret.len /\ ret.val = "nil"
  /\ (ret.op = "Wait" /\ cmd = "waited" /\ proc = "exitErr" /\ ctxErr = "nil") =>
       /\ HasPrefix(ret.val, "ffmpeg exit error: ")
       /\ stderr.data # "" => HasSuffix(ret.val, ", stderr: " \o stderr.data)

\* more than Limit bytes were written in two chunks, the process exited with
\* a nonzero status, and Wait has returned the exit error with the last 2048
\* of them
C22_Witness ==
  /\ ret = Returned("Wait", "ffmpeg exit error: exit status, stderr: "
                              \o Bytes("e", 1023) \o Bytes("w", 1025))
  /\ stderr.data = Bytes("e", 1023) \o Bytes("w", 1025)
  /\ proc = "exitErr" /\ ctxErr = "nil"

\* C24: an error returned by Start or Wait is of exactly one of three kinds,
\* 'configuration error' (the descriptor was rejected), 'ffmpeg exit error'
\* (the process exited with a nonzero status) or the context's error (the
\* context is done), and it is of the kind of its cause.
C24_ErrorKindsMatchCauses ==
  (ret.op \in {"Start", "Wait"} /\ ret.val # "nil") =>
    LET configuration == HasPrefix(ret.val, "configuration error")
        exit == HasPrefix(ret.val, "ffmpeg exit error")
        cancellation == ret.val \in ContextErrors
    IN /\ configuration \/ exit \/ cancellation
       /\ ~(configuration /\ exit) /\ ~(configuration /\ cancellation)
       /\ ~(exit /\ cancellation)
       /\ configuration => ret.op = "Start" /\ Validate(config) # "ok"
       /\ exit => ret.op = "Wait" /\ proc = "exitErr"
       /\ cancellation => ctxErr = ret.val

\* C25: in the argument vector of every command, every output has a "-ar",
\* a "-ac" and a "-f" option among the options placed before its target.
C25_EveryOutputHasRateChannelsFormat ==
  cmd # "nil" =>
    \A k \in OutputTargets(cmdArgs) :
      \A opt \in {"-ar", "-ac", "-f"} : \E j \in OptionsOf(cmdArgs, k) : cmdArgs[j] = opt

\* C26: in the argument vector of every command, every input is preceded by
\* "-f <its effective format> -i"; when that format is raw, its options
\* ahead of that pair hold "-ar <its rate>" and "-ac <its channels>", and
\* when it is not, its options hold neither "-ar" nor "-ac".  A stream
\* command has one input for Convert and Split and two for Merge.
C26_InputRateChannelsIffRaw ==
  cmd # "nil" =>
    LET a == cmdArgs
        ins == InputSources(a)
    IN /\ engineType = "Stream" =>
            Cardinality(ins) = IF config.OpType = AUDIOMERGE THEN numInputs ELSE 1
       /\ \A k \in ins :
            LET in == GetInputArg(config, Cardinality({j \in ins : j < k}))
            IN /\ k >= 4 /\ a[k - 3] = "-f" /\ a[k - 2] = in.AudioFileFormat
               /\ IF IsRawPCM(in.AudioFileFormat)
                  THEN \E r, c \in OptionsOf(a, k) :
                         /\ r < k - 3 /\ a[r] = "-ar" /\ a[r + 1] = ToString(in.SampleRate)
                         /\ c < k - 3 /\ a[c] = "-ac" /\ a[c + 1] = ToString(in.Channels)
                  ELSE \A j \in OptionsOf(a, k) : a[j] \notin {"-ar", "-ac"}

\* a stream Merge of a raw input and a compressed input has been started
C26_Witness ==
  /\ engineType = "Stream" /\ cmd = "started"
  /\ config.OpType = AUDIOMERGE
  /\ Len(config.InputArgs) = 2
  /\ config.InputArgs[1].AudioFileFormat = "s16le"
  /\ config.InputArgs[2].AudioFileFormat = "mp3"
  /\ SubSeq(cmdArgs, Len(fastArgs) + 1, Len(fastArgs) + 10)
       = <<"-ar", "8000", "-ac", "1", "-thread_queue_size", "1024", "-f", "s16le",
           "-i", "pipe:0">>

\* C27: in the argument vector of every command, an input has the option
\* "-thread_queue_size" exactly if it is a pipe.
C27_EveryPipeInputHasQueueSize ==
  cmd # "nil" =>
    \A k \in InputSources(cmdArgs) :
      HasPrefix(cmdArgs[k], "pipe:")
        <=> \E j \in OptionsOf(cmdArgs, k) : cmdArgs[j] = "-thread_queue_size"

\* C28: a file engine whose descriptor has fewer paths than its operation
\* needs (an input and an output for Convert, an input and two outputs for
\* Split, two inputs and an output for Merge) never panics and never creates
\* a command.
C28_MissingPathsFailTheBuild ==
  LET need == IF config.OpType = CHANNELSPLIT THEN <<1, 2>>
              ELSE IF config.OpType = AUDIOMERGE THEN <<numInputs, 1>>
              ELSE <<1, 1>>
  IN (/\ engineType = "File"
      /\ Len(config.InputFiles) < need[1] \/ Len(config.OutputFiles) < need[2])
       => ~crashed /\ cmd = "nil"

\* C29: the argument vector of a stream Split command has one filter graph,
\* which splits input 0 by stereo layout into [l] and [r], resamples [l] to
\* the effective rate of output 0 as [left] and [r] to the effective rate of
\* output 1 as [right]; its outputs are pipe:1, with [left] mapped and the
\* rate and format of output 0, and pipe:3, with [right] mapped and the rate
\* and format of output 1.
C29_StreamSplitGraphAndMapping ==
  (engineType = "Stream" /\ config.OpType = CHANNELSPLIT /\ cmd # "nil") =>
    LET a == cmdArgs
        outL == GetOutputArg(config, 0)
        outR == GetOutputArg(config, 1)
        graphs == {j \in 1..(Len(a) - 1) : a[j] = "-filter_complex"}
        Contains(g, sub) ==
          \E i \in 1..(Len(g) - Len(sub) + 1) : SubSeq(g, i, i + Len(sub) - 1) = sub
    IN /\ Cardinality(graphs) = 1
       /\ \A j \in graphs :
            /\ HasPrefix(a[j + 1], "[0:a]channelsplit=channel_layout=stereo[l][r]")
            /\ Contains(a[j + 1], "[l]aresample=" \o ToString(outL.SampleRate) \o "[left]")
            /\ Contains(a[j + 1], "[r]aresample=" \o ToString(outR.SampleRate) \o "[right]")
       /\ {a[k] : k \in OutputTargets(a)} = {"pipe:1", "pipe:3"}
       /\ Cardinality(OutputTargets(a)) = 2
       /\ \A k \in OutputTargets(a) :
            LET out == IF a[k] = "pipe:1" THEN outL ELSE outR
            IN /\ HasOption(a, k, "-map", IF a[k] = "pipe:1" THEN "[left]" ELSE "[right]")
               /\ Cardinality({j \in OptionsOf(a, k) : a[j] = "-map"}) = 1
               /\ HasOption(a, k, "-ar", ToString(out.SampleRate))
               /\ HasOption(a, k, "-f", out.AudioFileFormat)
       /\ Len(config.OutputArgs) = 1 => outL = outR

\* a stream Split with two output specs of different rates has been started
C29_Witness ==
  /\ engineType = "Stream" /\ cmd = "started"
  /\ config.OpType = CHANNELSPLIT
  /\ config.OutputArgs = <<Args("wav", 16000, 2), Args("s16le", 8000, 1)>>
  /\ SubSeq(cmdArgs, Len(cmdArgs) - 13, Len(cmdArgs))
       = <<"-map", "[left]", "-ar", "16000", "-f", "wav", "pipe:1",
           "-map", "[right]", "-ar", "8000", "-f", "s16le", "pipe:3">>

\* C30: the argument vector of a stream Merge command has one filter graph,
\* which resamples input 0 and input 1 to the effective rate of output 0 as
\* [a0] and [a1]; under SideBySide it joins them into a stereo stream and
\* under Mix it sums them with duration=longest, followed by the pan stage
\* exactly if output 0 has 2 channels; the graph ends with its only [out]
\* tag, and [out] is the one tag mapped, to the only output, pipe:1.
C30_StreamMergeGraph ==
  (engineType = "Stream" /\ config.OpType = AUDIOMERGE /\ cmd # "nil") =>
    LET a == cmdArgs
        targetOut == GetOutputArg(config, 0)
        rate == ToString(targetOut.SampleRate)
        graphs == {j \in 1..(Len(a) - 1) : a[j] = "-filter_complex"}
        Occurs(g, sub) ==
          {i \in 1..(Len(g) - Len(sub) + 1) : SubSeq(g, i, i + Len(sub) - 1) = sub}
    IN /\ Cardinality(graphs) = 1
       /\ \A j \in graphs :
            LET g == a[j + 1]
            IN /\ Occurs(g, "[0:a]aresample=" \o rate \o "[a0]") # {}
               /\ Occurs(g, "[1:a]aresample=" \o rate \o "[a1]") # {}
               /\ IF config.MergeMode = SideBySide
                  THEN /\ Occurs(g, "[a0][a1]join=inputs=2:channel_layout=stereo") # {}
                       /\ Occurs(g, "amix") = {} /\ Occurs(g, "pan=") = {}
                  ELSE /\ Occurs(g, "[a0][a1]amix=inputs=2:duration=longest") # {}
                       /\ Occurs(g, "join") = {}
                       /\ Occurs(g, "pan=stereo|c0=c0|c1=c0") # {}
                            <=> targetOut.Channels = 2
               /\ Occurs(g, "[out]") = {Len(g) - 4}
       /\ {a[k] : k \in OutputTargets(a)} = {"pipe:1"}
       /\ Cardinality(OutputTargets(a)) = 1
       /\ {a[j + 1] : j \in {i \in 1..(Len(a) - 1) : a[i] = "-map"}} = {"[out]"}
       /\ \A k \in OutputTargets(a) :
            /\ Cardinality({j \in OptionsOf(a, k) : a[j] = "-map"}) = 1
            /\ HasOption(a, k, "-map", "[out]")

\* a stream Merge under Mix to a stereo output has been started
C30_Witness ==
  /\ engineType = "Stream" /\ cmd = "started"
  /\ config.OpType = AUDIOMERGE /\ config.MergeMode = Mix
  /\ GetOutputArg(config, 0) = Args("wav", 16000, 2)
  /\ \E j \in DOMAIN cmdArgs :
       cmdArgs[j] = "[0:a]aresample=16000[a0]; [1:a]aresample=16000[a1]; "
                      \o "[a0][a1]amix=inputs=2:duration=longest[mixed]; "
                      \o "[mixed]pan=stereo|c0=c0|c1=c0[out]"

\* C31: a single-threaded caller can be deadlocked.  Whenever the caller is
\* blocked in WriteTo on a full pipe while the running process is blocked on
\* a full output pipe or on an empty input that is still open, and nothing
\* has been cancelled, no step of the caller or of the process is enabled.
C31_SerialCallerDeadlock ==
  (/\ ctxErr = "nil" /\ proc = "running"
   /\ \E i \in blockedW : buf[stdins[i + 1][2]] = PipeCap
   /\ \/ \E p \in ProcOutputs : buf[p] = PipeCap
      \/ \E p \in ProcInputs : buf[p] = 0 /\ <<gen, p, "w">> \in openFds)
    => ~ENABLED SerialSteps

\* Convert: the caller is blocked writing chunk 3 of its input to the full
\* stdin pipe, the process is blocked on the full stdout pipe, and the
\* caller has not read anything
C31_Witness ==
  /\ config.OpType = FORMATCONVERT
  /\ ctxErr = "nil" /\ proc = "running"
  /\ blockedW = {0} /\ remaining[0] > 0
  /\ buf["stdin"] = PipeCap /\ buf["stdout"] = PipeCap
  /\ gotBytes = {}
  /\ ~ENABLED SerialSteps

\* C32: whenever a stream engine is running, its handle has as many input
\* ends and output ends as the operation has channels (1/1/2 inputs and
\* 1/2/1 outputs for Convert/Split/Merge), and every index denotes a pipe of
\* the command that is running.
C32_IndicesStableAcrossStarts ==
  (engineType = "Stream" /\ running) =>
    /\ Len(stdins) = IF config.OpType = AUDIOMERGE THEN 2 ELSE 1
    /\ Len(stdouts) = IF config.OpType = CHANNELSPLIT THEN 2 ELSE 1
    /\ \A e \in Range(stdins) \cup Range(stdouts) : e[1] = gen

\* C33: for a descriptor that went through SetDefaults and that Validate
\* accepts, every spec the stream builder reads (GetInputArg and GetOutputArg
\* at the indices of the operation, broadcast included) is one Validate
\* checked and passes that check, and the built vector has no non-positive
\* "-ar" or "-ac" value and no empty "-f" value.
C33_BuilderReadsValidatedSpecs ==
  (ret = Returned("Validate", "ok") /\ config = SetDefaults(config)) =>
    LET c == config
        inIdx == IF c.OpType = AUDIOMERGE THEN 0..(numInputs - 1) ELSE {0}
        outIdx == IF c.OpType = CHANNELSPLIT THEN 0..1 ELSE {0}
        checkedIn == {GetInputArg(c, i) : i \in 0..(Len(c.InputArgs) - 1)}
        checkedOut == {GetOutputArg(c, i) : i \in 0..(Len(c.OutputArgs) - 1)}
        a == StreamHandle_Args(c)
    IN /\ \A i \in inIdx :
            /\ GetInputArg(c, i) \in checkedIn
            /\ check(GetInputArg(c, i), IsRawPCM(GetInputArg(c, i).AudioFileFormat)) = "ok"
       /\ \A i \in outIdx :
            /\ GetOutputArg(c, i) \in checkedOut
            /\ check(GetOutputArg(c, i), TRUE) = "ok"
       /\ \A k \in 1..(Len(a) - 1) :
            /\ a[k] \in {"-ar", "-ac"} => a[k + 1] # "0" /\ ~HasPrefix(a[k + 1], "-")
            /\ a[k] = "-f" => a[k + 1] # ""

\* an accepted Merge descriptor with one raw input spec, read for both
\* inputs: the second input carries the spec's rate
C33_Witness ==
  /\ ret = Returned("Validate", "ok")
  /\ config = SetDefaults(config)
  /\ config.OpType = AUDIOMERGE
  /\ Len(config.InputArgs) = 1
  /\ IsRawPCM(config.InputArgs[1].AudioFileFormat)
  /\ HasOption(StreamHandle_Args(config), CHOOSE k \in InputSources(StreamHandle_Args(config)) :
                 StreamHandle_Args(config)[k] = "pipe:3", "-ar", "8000")

\* C34: on a stream engine, once CloseInput or Done has returned a write on
\* any input channel of the handle returns "file already closed", and once
\* Done has returned so does a read on any output channel: no byte moves
\* and the call does not block.  A writer that was blocked in Write when
\* CloseInput ran returns with that error, and the program has not crashed.
C34_ClosedChannelsReturnErrors ==
  engineType = "Stream" =>
    /\ ret.op \in {"CloseInput", "Done"} =>
         \A i \in 0..(Len(stdins) - 1) : Processor_WriteTo(i) = "file already closed"
    /\ ret.op = "Done" =>
         \A o \in 0..(Len(stdouts) - 1) : Processor_ReadFrom(o) = "file already closed"
    /\ ret.op = "CloseInput" =>
         \A i \in blockedW :
           /\ ~crashed
           /\ ENABLED WriteReturn(i)
           /\ WriteOutcome(stdins[i + 1]) = "file already closed"

\* CloseInput has returned on the running engine of a Merge while the
\* writer of the second input is still blocked in Write
C34_Witness ==
  /\ engineType = "Stream" /\ config.OpType = AUDIOMERGE
  /\ running /\ gen = 1
  /\ ret.op = "CloseInput"
  /\ 1 \in blockedW
  /\ buf["extra"] = PipeCap

\* C35: after any sequence of Writes on the TailBuffer of a command, with
\* Limit L, String() is the last min(L, total) bytes of all the bytes
\* written, in order -- only the oldest bytes are gone -- also when one
\* Write is longer than L.
C35_StringIsTailOfAllWrites ==
  cmd # "nil" =>
    LET total == Len(diagnostics)
        kept == IF total < stderr.Limit THEN total ELSE stderr.Limit
    IN TailBuffer_String(stderr) = SubSeq(diagnostics, total - kept + 1, total)

\* a Write of Limit + 1 bytes has followed two shorter ones: the buffer
\* holds the last Limit bytes of the long chunk alone
C35_Witness ==
  /\ diagnostics = Bytes("e", StderrLimit \div 2) \o Bytes("w", StderrLimit \div 2 + 1)
                     \o Bytes("x", StderrLimit + 1)
  /\ ret.op = "Write" /\ ret.len = StderrLimit + 1
  /\ TailBuffer_String(stderr) = Bytes("x", StderrLimit)

\* C36: a descriptor whose operation type is none of Convert, Split and
\* Merge is rejected once defaults are applied and the descriptor is
\* validated, so it is never run as some default operation.
C36_UnknownOperationRejected ==
  [][(config.OpType \notin {FORMATCONVERT, CHANNELSPLIT, AUDIOMERGE}
        /\ ret'.op = "SetDefaults") =>
       Validate(config') # "ok"]_vars

\* C37: SetDefaults leaves both channel-spec sequences non-empty with a
\* positive sample rate and channel count in every entry; a sequence that
\* was empty holds the placeholder (no format, 8000 Hz, 1 channel), and an
\* entry keeps a sample rate and a channel count that were positive.
C37_SetDefaultsLeavesPositiveSpecs ==
  [][ret'.op = "SetDefaults" =>
       LET Filled(before, after) ==
             /\ Len(after) > 0
             /\ \A i \in 1..Len(after) : after[i].SampleRate > 0 /\ after[i].Channels > 0
             /\ before = <<>> => after = <<Args("", 8000, 1)>>
             /\ \A i \in 1..Len(before) :
                  /\ i <= Len(after)
                  /\ before[i].SampleRate > 0 => after[i].SampleRate = before[i].SampleRate
                  /\ before[i].Channels > 0 => after[i].Channels = before[i].Channels
       IN /\ Filled(config.InputArgs, config'.InputArgs)
          /\ Filled(config.OutputArgs, config'.OutputArgs)]_vars

\* SetDefaults has filled an empty input sequence with the placeholder and
\* kept the rate and channel count of a complete output spec
C37_Witness ==
  /\ ret.op = "SetDefaults"
  /\ config.InputArgs = <<Args("", 8000, 1)>>
  /\ config.OutputArgs = <<Args("wav", 16000, 2), Args("wav", 8000, 1)>>

C39_MapTagsAreFilterOutputs ==
  (engineType = "File" /\ cmdArgs # <<>> /\ config.OpType \in {CHANNELSPLIT, AUDIOMERGE}) =>
    LET r == BuildFilterComplex(config)
        tags == r.mapTags
        \* the label closes a chain of the graph f
        OutputLabel(f, tag) ==
          \E k \in 2..(Len(f) - Len(tag) + 1) :
            /\ SubSeq(f, k, k + Len(tag) - 1) = tag
            /\ SubSeq(f, k - 1, k - 1) \notin {" ", ";"}
            /\ k + Len(tag) - 1 = Len(f) \/ SubSeq(f, k + Len(tag), k + Len(tag)) = ";"
    IN /\ Len(tags) = IF config.OpType = CHANNELSPLIT THEN 2 ELSE 1
       /\ \A i, j \in 1..Len(tags) : tags[i] = tags[j] => i = j
       /\ \A i \in 1..Len(tags) : OutputLabel(r.filterStr, tags[i])
       /\ \E k \in 1..(Len(cmdArgs) - 1) :
            cmdArgs[k] = "-filter_complex" /\ cmdArgs[k + 1] = r.filterStr
       /\ \A k \in 1..(Len(cmdArgs) - 1) :
            cmdArgs[k] = "-map" =>
              /\ OutputLabel(r.filterStr, cmdArgs[k + 1])
              /\ \E i \in 1..Len(tags) : cmdArgs[k + 1] = tags[i]

\* the command of a file Merge with a custom filter maps the label that
\* follows the custom stage
C39_Witness ==
  /\ engineType = "File" /\ config.OpType = AUDIOMERGE
  /\ config.FilterString = "volume=2.0"
  /\ \E k \in 1..(Len(cmdArgs) - 1) : cmdArgs[k] = "-map" /\ cmdArgs[k + 1] = "[finalout]"

====
